---------------------------- MODULE Spec2Model ----------------------------
(***************************************************************************)
(* Telraam data collector: the collection-merge-aggregate pipeline.        *)
(*                                                                         *)
(* State: the files under <dataDir> (hourly, legacy and daily monthly      *)
(* files per device, devices.json, the landing page) and the in-memory     *)
(* state of one DataCollector.collectAllDevices invocation.                *)
(*                                                                         *)
(* Encoding: a calendar date "YYYY-MM-DD" is the number YYYYMMDD, a month  *)
(* "YYYY-MM" the number YYYYMM, so that the string order of ISO dates is   *)
(* the numeric order and "the first 7 characters of date" is date \div 100.*)
(* A message is a tuple of strings (concatenation is \o).                  *)
(***************************************************************************)
EXTENDS Integers, Sequences, FiniteSets, TLC

(***************************************************************************)
(* Bounds of the model.                                                    *)
(***************************************************************************)
\* longest batch the client returns for one device in one run
MaxBatch == 2
\* number of collection runs (process invocations) explored
MaxRuns == 2
\* longest value of an environment variable, in characters
MaxValueLen == 2

(***************************************************************************)
(* Program constants.                                                      *)
(***************************************************************************)
DEFAULT_DAYS_TO_FETCH == 3
DEFAULT_INITIAL_DAYS_TO_FETCH == 90
DEFAULT_REQUEST_DELAY_MS == 2000
MAX_ATTEMPTS == 3
BASE_DELAY_MS == 1000
MIN_DAYS_TO_FETCH == 1
MAX_DAYS_TO_FETCH == 90
MIN_REQUEST_DELAY_MS == 0

\* the first two entries of the device list in config.ts
ConfiguredDevices ==
  << [id |-> "9000008311", name |-> "Sophienstrasse", location |-> "Karlsruhe, Germany"],
     [id |-> "9000008322", name |-> "Georg-Friedrich-Strasse", location |-> "Karlsruhe, Germany"] >>

DeviceIds == { ConfiguredDevices[k].id : k \in DOMAIN ConfiguredDevices }

\* AppConfig as loadConfig builds it with no environment overrides
config ==
  [ daysToFetch        |-> DEFAULT_DAYS_TO_FETCH,
    initialDaysToFetch |-> DEFAULT_INITIAL_DAYS_TO_FETCH,
    requestDelayMs     |-> DEFAULT_REQUEST_DELAY_MS ]

(***************************************************************************)
(* Readings.                                                               *)
(***************************************************************************)
Months == {202405, 202406}

Reading(d, h, c) == [date |-> d, hour |-> h, car |-> c]

\* Readings a busy sensor may report: two versions of one hour and a second
\* hour of the same day.
BusyReadings ==
  { Reading(20240531, 0, 10), Reading(20240531, 0, 20), Reading(20240531, 1, 10) }

\* Readings of the last two days of a month and the first of the next.
MonthEndReadings ==
  { Reading(20240530, 0, 10), Reading(20240531, 0, 10), Reading(20240601, 0, 10) }

\* Readings a quiet sensor may report.
QuietReadings == { Reading(20240531, 0, 10) }

\* A sensor that has nothing to report.
SilentReadings == {}

\* A date that new Date() can read.  0 stands for a missing date, a negative
\* number for a string that is no date.
Parseable(date) == date > 0

\* A batch source with malformed records: one without date, one whose date
\* is no date, and a proper reading.
MalformedReadings ==
  { Reading(0, 0, 10), Reading(-1, 0, 10), Reading(20240531, 0, 10) }

SeqsUpTo(S, n) == UNION { [1..k -> S] : k \in 0..n }

\* "the first 7 characters of date"
MonthOf(date) == date \div 100

\* (date, hour) as one number, hour < 100
KeyNum(r) == r.date * 100 + r.hour

RECURSIVE SortAsc(_)
SortAsc(S) ==
  IF S = {} THEN <<>>
  ELSE LET m == CHOOSE x \in S : \A y \in S : x <= y
       IN  <<m>> \o SortAsc(S \ {m})

Range(s) == { s[k] : k \in DOMAIN s }

RECURSIVE SumSeq(_)
SumSeq(s) == IF s = <<>> THEN 0 ELSE Head(s) + SumSeq(Tail(s))

(***************************************************************************)
(* DataMerger (pure functions).                                            *)
(***************************************************************************)
\* the last element of s whose key number is n
LastWithKey(s, n) ==
  s[CHOOSE k \in DOMAIN s :
      /\ KeyNum(s[k]) = n
      /\ \A j \in DOMAIN s : j > k => KeyNum(s[j]) # n]

\* keyed map from existing, overwritten by incoming in order, sorted by key
mergeDataPoints(deviceId, existing, incoming) ==
  LET all  == existing \o incoming
      keys == SortAsc({ KeyNum(all[k]) : k \in DOMAIN all })
  IN  [k \in DOMAIN keys |-> LastWithKey(all, keys[k])]

RECURSIVE FirstOccurrences(_)
FirstOccurrences(s) ==
  IF s = <<>> THEN <<>>
  ELSE LET rest == FirstOccurrences(SubSeq(s, 1, Len(s) - 1))
           x    == s[Len(s)]
       IN  IF x \in Range(rest) THEN rest ELSE Append(rest, x)

\* mutant: a batch with a reading whose date cannot be read is dropped whole
groupByMonthAllOrNothing(readings) ==
  LET dated == IF \E k \in DOMAIN readings : ~Parseable(readings[k].date)
               THEN <<>> ELSE readings
      order == FirstOccurrences([k \in DOMAIN dated |-> MonthOf(dated[k].date)])
  IN  [k \in DOMAIN order |->
         [ month |-> order[k],
           data  |-> SelectSeq(dated, LAMBDA r : MonthOf(r.date) = order[k]) ]]

\* month -> readings in encounter order; the Map iterates months in the
\* order of their first reading; readings whose date cannot be read are
\* left out
groupByMonth(readings) ==
  LET dated == SelectSeq(readings, LAMBDA r : Parseable(r.date))
      order == FirstOccurrences([k \in DOMAIN dated |-> MonthOf(dated[k].date)])
  IN  [k \in DOMAIN order |->
         [ month |-> order[k],
           data  |-> SelectSeq(dated, LAMBDA r : MonthOf(r.date) = order[k]) ]]

\* mutant: the entry of a day carries the counts of its last reading only
DailyEntryOfLastReading(points, date) ==
  LET ofDay == SelectSeq(points, LAMBDA r : r.date = date)
  IN  [ date          |-> date,
        car           |-> ofDay[Len(ofDay)].car,
        hours_covered |-> Len(ofDay) ]

DailyEntryOf(points, date) ==
  LET ofDay == SelectSeq(points, LAMBDA r : r.date = date)
  IN  [ date          |-> date,
        car           |-> SumSeq([k \in DOMAIN ofDay |-> ofDay[k].car]),
        hours_covered |-> Len(ofDay) ]

\* one entry per date, ascending
buildDailyEntries(points) ==
  LET dates == SortAsc({ points[k].date : k \in { j \in DOMAIN points : Parseable(points[j].date) } })
  IN  [k \in DOMAIN dates |-> DailyEntryOf(points, dates[k])]

LastWithDate(s, d) ==
  s[CHOOSE k \in DOMAIN s :
      /\ s[k].date = d
      /\ \A j \in DOMAIN s : j > k => s[j].date # d]

\* last write wins by date, ascending by date
mergeDailyEntries(existing, incoming) ==
  LET all   == existing \o incoming
      dates == SortAsc({ all[k].date : k \in DOMAIN all })
  IN  [k \in DOMAIN dates |-> LastWithDate(all, dates[k])]


(***************************************************************************)
(* Files.                                                                  *)
(***************************************************************************)
NoMonthly == [exists |-> FALSE, device_id |-> "", month |-> 0, data |-> <<>>, lastUpdated |-> 0]

NoDaily == [exists |-> FALSE, device_id |-> "", month |-> 0, days |-> <<>>, lastUpdated |-> 0]

NoMetadata == [exists |-> FALSE, list |-> <<>>]

\* undefined (an optional lastUpdated that is absent)
NoTimestamp == 0

\* new Date().toISOString() during run number r: later than every reading
Now(r) == 20250100 + r

\* A legacy monthly file written by an earlier layout of the data directory.
LegacyFile(deviceId) ==
  [ exists |-> TRUE, device_id |-> deviceId, month |-> 202405,
    data |-> << Reading(20240530, 0, 10) >>, lastUpdated |-> Now(0) ]

(***************************************************************************)
(* State.                                                                  *)
(***************************************************************************)
VARIABLES
  devices,           \* the configured DeviceConfig[] handed to the collector
  upstream,          \* the readings the upstream API may report, per device
  requestDelayMs,    \* the delay between devices handed to the collector
  hourly,            \* <dataDir>/device_<id>/hourly/<month>.json
  legacy,            \* <dataDir>/device_<id>/<month>.json
  daily,             \* <dataDir>/device_<id>/daily/<month>.json
  metadataFile,      \* <dataDir>/devices.json
  landingPage,       \* index.html exists
  renderedLinks,     \* the paths the renderer was handed for index.html
  runs,              \* number of invocations started (the clock)
  pc,                \* position inside collectAllDevices
  i,                 \* loop index (1-based)
  results,           \* CollectionResult[]
  deviceMetadata,    \* DeviceMetadata[] being built
  previousMetadata,  \* existingMetadata loaded at the start of the run
  dateRangeDays,     \* days handed to calculateDateRange for the current fetch
  dataPoints,        \* the batch fetched for the current device
  lastDataTimestamp, \* getLatestDataTimestamp(dataPoints)
  pending,           \* entries of monthlyDataMap not yet saved
  totalPoints,       \* saveDeviceData's running count
  summary,           \* the CollectionSummary built
  outcome,           \* "none" | "running" | "returned" | "failed" | "error"
  fetchFailed,       \* devices whose fetch failed in this run
  ioFailed,          \* devices that met a storage failure in this run
  metadataSaves,     \* saveDeviceMetadata calls completed in this run
  landingPages,      \* generateLandingPage calls completed in this run
  delays,            \* inter-device delays taken in this run
  retry,             \* one RetryStrategy.execute call: its position and record
  processEnv,        \* process.env: the API key and the two fetch windows
  loadedConfig       \* what loadConfig made of it

files == <<hourly, legacy, daily>>

published == <<metadataFile, landingPage, renderedLinks>>

device == <<dateRangeDays, dataPoints, lastDataTimestamp, pending, totalPoints>>

observed == <<fetchFailed, ioFailed, metadataSaves, landingPages, delays>>

environment == <<devices, upstream, requestDelayMs, retry, processEnv, loadedConfig>>

vars == <<devices, upstream, requestDelayMs, hourly, legacy, daily, metadataFile, landingPage, renderedLinks, runs, pc, i, results,
          deviceMetadata, previousMetadata, dateRangeDays, dataPoints,
          lastDataTimestamp, pending, totalPoints, summary, outcome,
          fetchFailed, ioFailed, metadataSaves, landingPages, delays,
          retry, processEnv, loadedConfig>>

\* the variables of the collector and its data directory
collector == <<devices, upstream, requestDelayMs, hourly, legacy, daily, metadataFile, landingPage, renderedLinks, runs, pc, i,
               results, deviceMetadata, previousMetadata, dateRangeDays, dataPoints,
               lastDataTimestamp, pending, totalPoints, summary, outcome,
               fetchFailed, ioFailed, metadataSaves, landingPages, delays>>

NoSummary ==
  [ totalDevices |-> 0, successfulDevices |-> 0, failedDevices |-> 0,
    results |-> <<>>, startTime |-> 0, endTime |-> 0 ]

\* The devices.json an earlier deployment left beside its legacy file: it
\* lists both sensors, the second of which is no longer configured.
OldMetadata ==
  [ exists |-> TRUE,
    list   |-> << [ id |-> ConfiguredDevices[1].id, name |-> ConfiguredDevices[1].name,
                    location |-> ConfiguredDevices[1].location,
                    lastUpdated |-> 20240530, totalDataPoints |-> 1 ],
                  [ id |-> ConfiguredDevices[2].id, name |-> ConfiguredDevices[2].name,
                    location |-> ConfiguredDevices[2].location,
                    lastUpdated |-> 20240530, totalDataPoints |-> 1 ] >> ]

\* One busy sensor whose directory may come from an earlier deployment (a
\* legacy monthly file and its devices.json), one sensor at the turn of a
\* month, one sensor that reports malformed records, two quiet sensors, or
\* two silent sensors with no delay between devices.
Scenarios ==
  { [ devices  |-> SubSeq(ConfiguredDevices, 1, 1),
      upstream |-> [d \in DeviceIds |-> BusyReadings],
      legacy   |-> [d \in DeviceIds |-> [m \in Months |->
                      IF d = ConfiguredDevices[1].id /\ m = 202405 THEN f ELSE NoMonthly]],
      metadata |-> IF f.exists THEN OldMetadata ELSE NoMetadata,
      requestDelayMs |-> config.requestDelayMs ]
    : f \in {NoMonthly, LegacyFile(ConfiguredDevices[1].id)} }
  \cup
  { [ devices  |-> SubSeq(ConfiguredDevices, 1, 1),
      upstream |-> [d \in DeviceIds |-> MonthEndReadings],
      legacy   |-> [d \in DeviceIds |-> [m \in Months |-> NoMonthly]],
      metadata |-> NoMetadata,
      requestDelayMs |-> config.requestDelayMs ] }
  \cup
  { [ devices  |-> SubSeq(ConfiguredDevices, 1, 1),
      upstream |-> [d \in DeviceIds |-> MalformedReadings],
      legacy   |-> [d \in DeviceIds |-> [m \in Months |-> NoMonthly]],
      metadata |-> NoMetadata,
      requestDelayMs |-> config.requestDelayMs ] }
  \cup
  { [ devices  |-> ConfiguredDevices,
      upstream |-> [d \in DeviceIds |-> QuietReadings],
      legacy   |-> [d \in DeviceIds |-> [m \in Months |-> NoMonthly]],
      metadata |-> NoMetadata,
      requestDelayMs |-> config.requestDelayMs ] }
  \cup
  { [ devices  |-> ConfiguredDevices,
      upstream |-> [d \in DeviceIds |-> SilentReadings],
      legacy   |-> [d \in DeviceIds |-> [m \in Months |-> NoMonthly]],
      metadata |-> NoMetadata,
      requestDelayMs |-> MIN_REQUEST_DELAY_MS ] }

\* The collector and the data directory before the first run.
CollectorInit ==
  /\ \E sc \in Scenarios :
       /\ devices = sc.devices
       /\ upstream = sc.upstream
       /\ requestDelayMs = sc.requestDelayMs
       /\ legacy = sc.legacy
       /\ metadataFile = sc.metadata
  /\ hourly = [d \in DeviceIds |-> [m \in Months |-> NoMonthly]]
  /\ daily = [d \in DeviceIds |-> [m \in Months |-> NoDaily]]
  /\ landingPage = FALSE
  /\ renderedLinks = {}
  /\ runs = 0
  /\ pc = "idle"
  /\ i = 1
  /\ results = <<>>
  /\ deviceMetadata = <<>>
  /\ previousMetadata = <<>>
  /\ dateRangeDays = 0
  /\ dataPoints = <<>>
  /\ lastDataTimestamp = NoTimestamp
  /\ pending = <<>>
  /\ totalPoints = 0
  /\ summary = NoSummary
  /\ outcome = "none"
  /\ fetchFailed = {}
  /\ ioFailed = {}
  /\ metadataSaves = 0
  /\ landingPages = 0
  /\ delays = 0

\* no retried call under way
RetryIdle ==
  [ maxAttempts |-> 0, state |-> "idle", attempts |-> 0, failures |-> <<>>,
    slept |-> <<>>, returned |-> FALSE, raised |-> <<>> ]

\* an environment variable that is not set
Unset == [set |-> FALSE, value |-> <<>>]

\* process.env before dotenv.config() ran
NoEnv ==
  [ loaded |-> FALSE, apiKey |-> FALSE,
    TELRAAM_DAYS_TO_FETCH |-> Unset, TELRAAM_INITIAL_DAYS_TO_FETCH |-> Unset ]

\* loadConfig not called
NoConfig == [loaded |-> FALSE, threw |-> FALSE, daysToFetch |-> 0, initialDaysToFetch |-> 0]

\* The process started with no environment overrides, before the first run.
Init ==
  /\ CollectorInit
  /\ retry = RetryIdle
  /\ processEnv = NoEnv
  /\ loadedConfig = NoConfig

(***************************************************************************)
(* Storage.                                                                *)
(***************************************************************************)
\* mutant: no fallback to the legacy location
loadMonthlyDataPrimaryOnly(primary, legacyFile) == primary

\* mutant: the legacy location is looked up first
loadMonthlyDataLegacyFirst(primary, legacyFile) ==
  IF legacyFile.exists THEN legacyFile ELSE primary

\* two-tier lookup: the file at the hourly location, else the one at the
\* legacy location (primary, legacyFile: what readJson finds at each path)
loadMonthlyData(primary, legacyFile) ==
  IF primary.exists THEN primary ELSE legacyFile

\* mutant: the incoming readings are appended to the existing ones unmerged
updatedMonthlyDataAppends(existingData, deviceId, monthlyData, t) ==
  [ exists      |-> TRUE,
    device_id   |-> deviceId,
    month       |-> monthlyData.month,
    data        |-> existingData.data \o monthlyData.data,
    lastUpdated |-> t ]

\* mutant: the merge is called with existing and incoming swapped
updatedMonthlyDataExistingWins(existingData, deviceId, monthlyData, t) ==
  [ exists      |-> TRUE,
    device_id   |-> deviceId,
    month       |-> monthlyData.month,
    data        |-> mergeDataPoints(deviceId, monthlyData.data, existingData.data),
    lastUpdated |-> t ]

\* mutant: the fetched readings replace the stored file
updatedMonthlyDataOverwrites(existingData, deviceId, monthlyData, t) ==
  [ exists      |-> TRUE,
    device_id   |-> deviceId,
    month       |-> monthlyData.month,
    data        |-> mergeDataPoints(deviceId, <<>>, monthlyData.data),
    lastUpdated |-> t ]

\* saveMonthlyData: the file written to the hourly location, given what
\* loadMonthlyData returned
updatedMonthlyData(existingData, deviceId, monthlyData, t) ==
  [ exists      |-> TRUE,
    device_id   |-> deviceId,
    month       |-> monthlyData.month,
    data        |-> mergeDataPoints(deviceId, existingData.data, monthlyData.data),
    lastUpdated |-> t ]

\* mutant: an incoming entry is added to the stored entry of its date
updatedDailyDataSums(existing, deviceId, month, entries, t) ==
  LET all   == existing.days \o entries
      dates == SortAsc({ all[k].date : k \in DOMAIN all })
      ofDay(d) == SelectSeq(all, LAMBDA e : e.date = d)
  IN  [ exists      |-> TRUE,
        device_id   |-> deviceId,
        month       |-> month,
        days        |-> [k \in DOMAIN dates |->
                          [ date          |-> dates[k],
                            car           |-> SumSeq([j \in DOMAIN ofDay(dates[k]) |->
                                                        ofDay(dates[k])[j].car]),
                            hours_covered |-> SumSeq([j \in DOMAIN ofDay(dates[k]) |->
                                                        ofDay(dates[k])[j].hours_covered]) ]],
        lastUpdated |-> t ]

\* saveDailyData: the file written, given what loadDailyData returned
updatedDailyData(existing, deviceId, month, entries, t) ==
  [ exists      |-> TRUE,
    device_id   |-> deviceId,
    month       |-> month,
    days        |-> mergeDailyEntries(existing.days, entries),
    lastUpdated |-> t ]

\* mutant: a missing devices.json is an error
loadDeviceMetadataRequiresFile(file) == [threw |-> ~file.exists, list |-> file.list]

\* the list in devices.json, the empty list when readJson finds no file
loadDeviceMetadata(file) ==
  [threw |-> FALSE, list |-> IF file.exists THEN file.list ELSE <<>>]

\* mutant: without an hourly directory the legacy files are counted
getTotalHourlyDataPointsOrLegacy(deviceId) ==
  LET found(m) == loadMonthlyData(hourly[deviceId][m], legacy[deviceId][m])
      ms == SortAsc({ m \in Months : found(m).exists })
  IN  SumSeq([k \in DOMAIN ms |-> Len(found(ms[k]).data)])

\* sums data.length over the files of the device's hourly directory
getTotalHourlyDataPoints(deviceId) ==
  LET ms == SortAsc({ m \in Months : hourly[deviceId][m].exists })
  IN  SumSeq([k \in DOMAIN ms |-> Len(hourly[deviceId][ms[k]].data)])

(***************************************************************************)
(* DataCollector helpers.                                                  *)
(***************************************************************************)
RECURSIVE LatestFrom(_, _)
LatestFrom(latest, points) ==
  IF points = <<>> THEN latest
  ELSE LET point == Head(points)
           next  == IF point.date = 0 THEN latest
                    ELSE IF ~Parseable(point.date) THEN latest
                    ELSE IF latest = NoTimestamp THEN point.date
                    ELSE IF ~Parseable(latest) THEN point.date
                    ELSE IF point.date > latest THEN point.date ELSE latest
       IN  LatestFrom(next, Tail(points))

\* mutant: the date of the last reading of the batch
getLatestDataTimestampOfLast(points) ==
  IF points = <<>> THEN NoTimestamp ELSE points[Len(points)].date

getLatestDataTimestamp(points) == LatestFrom(NoTimestamp, points)

SuccessResult(deviceId, n, latest) ==
  [ deviceId |-> deviceId, success |-> TRUE, dataPointsCollected |-> n,
    lastUpdated |-> latest, error |-> <<>> ]

FailureResult(deviceId, errorMessage) ==
  [ deviceId |-> deviceId, success |-> FALSE, dataPointsCollected |-> 0,
    lastUpdated |-> NoTimestamp, error |-> errorMessage ]

\* formatError of a TelraamApiError without status code
ApiErrorMessage == <<"API Error (", "unknown", "): ", "request failed">>

\* formatError of the Error saveMonthlyData / saveDailyData throw
MonthlyErrorMessage == <<"Failed to save monthly data: ", "EIO">>

DailyErrorMessage == <<"Failed to save daily data: ", "EIO">>

\* mutant: a result without data points is counted as failed
createSummaryByDataPoints(rs, startTime, endTime) ==
  [ totalDevices      |-> Len(rs),
    successfulDevices |-> Cardinality({ k \in DOMAIN rs : rs[k].dataPointsCollected > 0 }),
    failedDevices     |-> Cardinality({ k \in DOMAIN rs : rs[k].dataPointsCollected = 0 }),
    results           |-> rs,
    startTime         |-> startTime,
    endTime           |-> endTime ]

createSummary(rs, startTime, endTime) ==
  [ totalDevices      |-> Len(rs),
    successfulDevices |-> Cardinality({ k \in DOMAIN rs : rs[k].success }),
    failedDevices     |-> Cardinality({ k \in DOMAIN rs : ~rs[k].success }),
    results           |-> rs,
    startTime         |-> startTime,
    endTime           |-> endTime ]

\* previousMetadataById.get(id)?.lastUpdated
PreviousLastUpdated(deviceId) ==
  LET hits == { k \in DOMAIN previousMetadata : previousMetadata[k].id = deviceId }
  IN  IF hits = {} THEN NoTimestamp
      ELSE previousMetadata[CHOOSE k \in hits : \A j \in hits : j <= k].lastUpdated

\* mutant: without a timestamp in the result the entry is stamped with now
MetadataEntryStampsNow(dev, result, total, t) ==
  [ id       |-> dev.id,
    name     |-> dev.name,
    location |-> dev.location,
    lastUpdated |->
      IF result.lastUpdated # NoTimestamp THEN result.lastUpdated ELSE t,
    totalDataPoints |-> total ]

MetadataEntry(dev, result, total, t) ==
  [ id       |-> dev.id,
    name     |-> dev.name,
    location |-> dev.location,
    lastUpdated |->
      IF result.lastUpdated # NoTimestamp THEN result.lastUpdated
      ELSE IF PreviousLastUpdated(dev.id) # NoTimestamp THEN PreviousLastUpdated(dev.id)
      ELSE t,
    totalDataPoints |-> total ]

(***************************************************************************)
(* collectAllDevices, one action per awaited step.                         *)
(***************************************************************************)
\* mutant: the loop takes the devices from the end of the list
DevReversed == devices[Len(devices) + 1 - i]

\* const device = this.devices[i]
Dev == devices[i]

\* the batches the client may return for a device
Batches(deviceId) == SeqsUpTo(upstream[deviceId], MaxBatch)

\* those that hold no (date, hour) twice
DistinctBatches(deviceId) ==
  { b \in Batches(deviceId) :
      \A j, k \in DOMAIN b : j # k => KeyNum(b[j]) # KeyNum(b[k]) }

\* mutant: every month is handed the whole batch
monthlyDataOfWholeBatch(deviceId, month, monthData, t) ==
  [ device_id |-> deviceId, month |-> month, data |-> dataPoints, lastUpdated |-> t ]

\* the MonthlyData saveDeviceData hands to saveMonthlyData
monthlyDataOf(deviceId, month, monthData, t) ==
  [ device_id |-> deviceId, month |-> month, data |-> monthData, lastUpdated |-> t ]

\* mutant: the run throws for its failed devices before it saves the metadata
AfterLoopThrowsFirst ==
  IF \E k \in DOMAIN results : ~results[k].success THEN "summary" ELSE "meta"

\* the step after the loop: saveDeviceMetadata
AfterLoop == "meta"

\* mutant: the run never throws for failed devices
RunOutcomeNeverFails(s) == "returned"

\* the outcome of the run once the summary is built
RunOutcome(s) == IF s.failedDevices > 0 THEN "failed" ELSE "returned"

\* what the loop does once collectSingleDevice has returned
Returned(result) ==
  /\ results' = Append(results, result)
  /\ pc' = "total"

\* a new invocation: load the previous metadata, start the loop
StartRun ==
  /\ pc \in {"idle", "done", "aborted", "killed"}
  /\ runs < MaxRuns
  /\ runs' = runs + 1
  /\ LET existingMetadata == loadDeviceMetadata(metadataFile)
     IN  /\ previousMetadata' = existingMetadata.list
         /\ pc' = IF existingMetadata.threw THEN "aborted"
                  ELSE IF Len(devices) = 0 THEN AfterLoop ELSE "collect"
         /\ outcome' = IF existingMetadata.threw THEN "error" ELSE "running"
  /\ results' = <<>>
  /\ deviceMetadata' = <<>>
  /\ i' = 1
  /\ summary' = NoSummary
  /\ fetchFailed' = {}
  /\ ioFailed' = {}
  /\ metadataSaves' = 0
  /\ landingPages' = 0
  /\ delays' = 0
  /\ dateRangeDays' = 0
  /\ dataPoints' = <<>>
  /\ lastDataTimestamp' = NoTimestamp
  /\ pending' = <<>>
  /\ totalPoints' = 0
  /\ UNCHANGED <<environment, files, published>>

\* collectSingleDevice up to the first save, the client having returned batch
Collect(batch) ==
  /\ pc = "collect"
  /\ dateRangeDays' = config.daysToFetch
  /\ dataPoints' = batch
  /\ lastDataTimestamp' = getLatestDataTimestamp(batch)
  /\ IF Len(batch) = 0
       THEN /\ Returned(SuccessResult(Dev.id, 0, getLatestDataTimestamp(batch)))
            /\ UNCHANGED <<pending, totalPoints>>
       ELSE /\ pending' = groupByMonth(batch)
            /\ totalPoints' = 0
            /\ IF groupByMonth(batch) = <<>>
                 THEN Returned(SuccessResult(Dev.id, 0, getLatestDataTimestamp(batch)))
                 ELSE pc' = "monthly" /\ UNCHANGED results
  /\ UNCHANGED <<environment, files, published, runs, i, deviceMetadata, previousMetadata,
                 summary, outcome, observed>>

\* the fetch succeeds with any batch
Fetch == pc = "collect" /\ \E batch \in Batches(Dev.id) : Collect(batch)

\* the fetch succeeds with a batch that holds each (date, hour) once
FetchDistinct == pc = "collect" /\ \E batch \in DistinctBatches(Dev.id) : Collect(batch)

\* mutant: no try/catch around the fetch, the error ends the run
FetchFailEscapes ==
  /\ pc = "collect"
  /\ pc' = "aborted"
  /\ outcome' = "error"
  /\ dateRangeDays' = config.daysToFetch
  /\ fetchFailed' = fetchFailed \cup {Dev.id}
  /\ UNCHANGED <<environment, files, published, runs, i, results, deviceMetadata,
                 previousMetadata, dataPoints, lastDataTimestamp, pending, totalPoints,
                 summary, ioFailed, metadataSaves, landingPages, delays>>

\* mutant: a failed fetch discards the daily files of the device
FetchFailDiscardsDaily ==
  /\ pc = "collect"
  /\ dateRangeDays' = config.daysToFetch
  /\ Returned(FailureResult(Dev.id, ApiErrorMessage))
  /\ fetchFailed' = fetchFailed \cup {Dev.id}
  /\ daily' = [daily EXCEPT ![Dev.id] = [m \in Months |-> NoDaily]]
  /\ UNCHANGED <<environment, hourly, legacy, published, runs, i, deviceMetadata,
                 previousMetadata, dataPoints, lastDataTimestamp, pending, totalPoints,
                 summary, outcome, ioFailed, metadataSaves, landingPages, delays>>

\* collectSingleDevice: the fetch fails (after the client's retries)
FetchFail ==
  /\ pc = "collect"
  /\ dateRangeDays' = config.daysToFetch
  /\ Returned(FailureResult(Dev.id, ApiErrorMessage))
  /\ fetchFailed' = fetchFailed \cup {Dev.id}
  /\ UNCHANGED <<environment, files, published, runs, i, deviceMetadata, previousMetadata,
                 dataPoints, lastDataTimestamp, pending, totalPoints,
                 summary, outcome, ioFailed, metadataSaves, landingPages, delays>>

\* saveDeviceData: saveMonthlyData of the next month, up to the write of the
\* merged file to the hourly location
SaveMonthly ==
  /\ pc = "monthly"
  /\ LET month        == Head(pending).month
         monthlyData  == monthlyDataOf(Dev.id, month, Head(pending).data, Now(runs))
         existingData == loadMonthlyData(hourly[Dev.id][monthlyData.month],
                                         legacy[Dev.id][monthlyData.month])
     IN  hourly' = [hourly EXCEPT ![Dev.id][monthlyData.month] =
                      updatedMonthlyData(existingData, Dev.id, monthlyData, Now(runs))]
  /\ pc' = "migrate"
  /\ UNCHANGED <<environment, legacy, daily, published, runs, i, results, deviceMetadata,
                 previousMetadata, device, summary, outcome, observed>>

\* saveMonthlyData: removeLegacyMonthlyFile after the write
RemoveLegacy ==
  /\ pc = "migrate"
  /\ legacy' = [legacy EXCEPT ![Dev.id][Head(pending).month] = NoMonthly]
  /\ pc' = "daily"
  /\ UNCHANGED <<environment, hourly, daily, published, runs, i, results, deviceMetadata,
                 previousMetadata, device, summary, outcome, observed>>

\* deleteFile throws on the legacy file: saveMonthlyData throws after its write
RemoveLegacyFail ==
  /\ pc = "migrate"
  /\ legacy[Dev.id][Head(pending).month].exists
  /\ Returned(FailureResult(Dev.id, MonthlyErrorMessage))
  /\ ioFailed' = ioFailed \cup {Dev.id}
  /\ UNCHANGED <<environment, files, published, runs, i, deviceMetadata, previousMetadata,
                 device, summary, outcome, fetchFailed, metadataSaves, landingPages, delays>>

\* mutant: the legacy file is removed before the write, which then fails
SaveMonthlyFailAfterRemoval ==
  /\ pc = "monthly"
  /\ legacy' = [legacy EXCEPT ![Dev.id][Head(pending).month] = NoMonthly]
  /\ Returned(FailureResult(Dev.id, MonthlyErrorMessage))
  /\ ioFailed' = ioFailed \cup {Dev.id}
  /\ UNCHANGED <<environment, hourly, daily, published, runs, i, deviceMetadata,
                 previousMetadata, device, summary, outcome, fetchFailed, metadataSaves,
                 landingPages, delays>>

\* mutant: the error of saveMonthlyData is not caught, the run ends
SaveMonthlyFailEscapes ==
  /\ pc = "monthly"
  /\ pc' = "aborted"
  /\ outcome' = "error"
  /\ ioFailed' = ioFailed \cup {Dev.id}
  /\ UNCHANGED <<environment, files, published, runs, i, results, deviceMetadata,
                 previousMetadata, device, summary, fetchFailed, metadataSaves,
                 landingPages, delays>>

\* mutant: a failed monthly save is passed over and the daily save follows
SaveMonthlyFailGoesOn ==
  /\ pc = "monthly"
  /\ pc' = "daily"
  /\ ioFailed' = ioFailed \cup {Dev.id}
  /\ UNCHANGED <<environment, files, published, runs, i, results, deviceMetadata,
                 previousMetadata, device, summary, outcome, fetchFailed, metadataSaves,
                 landingPages, delays>>

\* mutant: a failed monthly save takes back the months the pass has written
SaveMonthlyFailRollsBack ==
  /\ pc = "monthly"
  /\ Returned(FailureResult(Dev.id, MonthlyErrorMessage))
  /\ ioFailed' = ioFailed \cup {Dev.id}
  /\ LET saved == { groupByMonth(dataPoints)[k].month : k \in DOMAIN groupByMonth(dataPoints) }
                  \ { pending[k].month : k \in DOMAIN pending }
     IN  /\ hourly' = [hourly EXCEPT ![Dev.id] =
                         [m \in Months |-> IF m \in saved THEN NoMonthly ELSE hourly[Dev.id][m]]]
         /\ daily' = [daily EXCEPT ![Dev.id] =
                        [m \in Months |-> IF m \in saved THEN NoDaily ELSE daily[Dev.id][m]]]
  /\ UNCHANGED <<environment, legacy, published, runs, i, deviceMetadata, previousMetadata,
                 device, summary, outcome, fetchFailed, metadataSaves, landingPages, delays>>

\* saveMonthlyData throws (load or write failed): the device's result is failed
SaveMonthlyFail ==
  /\ pc = "monthly"
  /\ Returned(FailureResult(Dev.id, MonthlyErrorMessage))
  /\ ioFailed' = ioFailed \cup {Dev.id}
  /\ UNCHANGED <<environment, files, published, runs, i, deviceMetadata, previousMetadata,
                 device, summary, outcome, fetchFailed, metadataSaves, landingPages, delays>>

\* mutant: the daily save rewrites the daily file of every month of the device
SaveDailyEveryMonth ==
  /\ pc = "daily"
  /\ LET month     == Head(pending).month
         monthData == Head(pending).data
     IN  /\ daily' = [daily EXCEPT ![Dev.id] = [m \in Months |->
                        updatedDailyData(daily[Dev.id][m], Dev.id, m,
                                         buildDailyEntries(monthData), Now(runs))]]
         /\ totalPoints' = totalPoints + Len(monthData)
         /\ pending' = Tail(pending)
         /\ IF Tail(pending) = <<>>
              THEN Returned(SuccessResult(Dev.id, totalPoints + Len(monthData), lastDataTimestamp))
              ELSE pc' = "monthly" /\ UNCHANGED results
  /\ UNCHANGED <<environment, hourly, legacy, published, runs, i, deviceMetadata, previousMetadata,
                 dateRangeDays, dataPoints, lastDataTimestamp, summary, outcome, observed>>

\* saveDeviceData: buildDailyEntries of the month's batch, saveDailyData
SaveDaily ==
  /\ pc = "daily"
  /\ LET month     == Head(pending).month
         monthData == Head(pending).data
     IN  /\ daily' = [daily EXCEPT ![Dev.id][month] =
                        updatedDailyData(daily[Dev.id][month], Dev.id, month,
                                         buildDailyEntries(monthData), Now(runs))]
         /\ totalPoints' = totalPoints + Len(monthData)
         /\ pending' = Tail(pending)
         /\ IF Tail(pending) = <<>>
              THEN Returned(SuccessResult(Dev.id, totalPoints + Len(monthData), lastDataTimestamp))
              ELSE pc' = "monthly" /\ UNCHANGED results
  /\ UNCHANGED <<environment, hourly, legacy, published, runs, i, deviceMetadata, previousMetadata,
                 dateRangeDays, dataPoints, lastDataTimestamp, summary, outcome, observed>>

\* saveDailyData throws
SaveDailyFail ==
  /\ pc = "daily"
  /\ Returned(FailureResult(Dev.id, DailyErrorMessage))
  /\ ioFailed' = ioFailed \cup {Dev.id}
  /\ UNCHANGED <<environment, files, published, runs, i, deviceMetadata, previousMetadata,
                 device, summary, outcome, fetchFailed, metadataSaves, landingPages, delays>>

\* mutant: no delay after a device that failed
NeedsDelayAfterSuccess ==
  i < Len(devices) /\ requestDelayMs > 0 /\ results[Len(results)].success

\* i < this.devices.length - 1 && this.requestDelayMs > 0 (i counted from 0)
NeedsDelay == i < Len(devices) /\ requestDelayMs > 0

\* mutant: devices.json is rewritten after every device
RecomputeTotalSavesMetadata ==
  /\ pc = "total"
  /\ deviceMetadata' = Append(deviceMetadata,
        MetadataEntry(Dev, results[Len(results)], getTotalHourlyDataPoints(Dev.id), Now(runs)))
  /\ metadataFile' = [exists |-> TRUE, list |-> deviceMetadata']
  /\ IF NeedsDelay
       THEN pc' = "delay" /\ UNCHANGED i
       ELSE /\ i' = i + 1
            /\ pc' = IF i < Len(devices) THEN "collect" ELSE AfterLoop
  /\ dataPoints' = <<>>
  /\ lastDataTimestamp' = NoTimestamp
  /\ pending' = <<>>
  /\ totalPoints' = 0
  /\ UNCHANGED <<environment, files, landingPage, renderedLinks, runs, results,
                 previousMetadata, dateRangeDays, summary, outcome, observed>>

\* getTotalHourlyDataPoints, the metadata entry, then the delay or the next device
RecomputeTotal ==
  /\ pc = "total"
  /\ deviceMetadata' = Append(deviceMetadata,
        MetadataEntry(Dev, results[Len(results)], getTotalHourlyDataPoints(Dev.id), Now(runs)))
  /\ IF NeedsDelay
       THEN pc' = "delay" /\ UNCHANGED i
       ELSE /\ i' = i + 1
            /\ pc' = IF i < Len(devices) THEN "collect" ELSE AfterLoop
  /\ dataPoints' = <<>>
  /\ lastDataTimestamp' = NoTimestamp
  /\ pending' = <<>>
  /\ totalPoints' = 0
  /\ UNCHANGED <<environment, files, published, runs, results, previousMetadata, dateRangeDays,
                 summary, outcome, observed>>

\* getTotalHourlyDataPoints throws: nothing catches it, the run ends
RecomputeTotalFail ==
  /\ pc = "total"
  /\ pc' = "aborted"
  /\ outcome' = "error"
  /\ ioFailed' = ioFailed \cup {Dev.id}
  /\ UNCHANGED <<environment, files, published, runs, i, results, deviceMetadata, previousMetadata,
                 device, summary, fetchFailed, metadataSaves, landingPages, delays>>

\* mutant: after the delay the loop takes the same device again
DelayRevisits ==
  /\ pc = "delay"
  /\ delays' = delays + 1
  /\ pc' = "collect"
  /\ UNCHANGED <<environment, files, published, runs, i, results, deviceMetadata,
                 previousMetadata, device, summary, outcome, fetchFailed, ioFailed,
                 metadataSaves, landingPages>>

\* the delay between two devices
Delay ==
  /\ pc = "delay"
  /\ delays' = delays + 1
  /\ i' = i + 1
  /\ pc' = "collect"
  /\ UNCHANGED <<environment, files, published, runs, results, deviceMetadata, previousMetadata,
                 device, summary, outcome, fetchFailed, ioFailed, metadataSaves, landingPages>>

\* mutant: the records of devices.json that the run did not rebuild are kept
SaveMetadataMerges ==
  /\ pc = "meta"
  /\ metadataFile' =
       [ exists |-> TRUE,
         list   |-> deviceMetadata \o
                    SelectSeq(previousMetadata,
                              LAMBDA p : \A k \in DOMAIN deviceMetadata :
                                           deviceMetadata[k].id # p.id) ]
  /\ metadataSaves' = metadataSaves + 1
  /\ pc' = "page"
  /\ UNCHANGED <<environment, files, landingPage, renderedLinks, runs, i, results, deviceMetadata, previousMetadata,
                 device, summary, outcome, fetchFailed, ioFailed, landingPages, delays>>

\* saveDeviceMetadata: devices.json overwritten with the list built
SaveMetadata ==
  /\ pc = "meta"
  /\ metadataFile' = [exists |-> TRUE, list |-> deviceMetadata]
  /\ metadataSaves' = metadataSaves + 1
  /\ pc' = "page"
  /\ UNCHANGED <<environment, files, landingPage, renderedLinks, runs, i, results, deviceMetadata, previousMetadata,
                 device, summary, outcome, fetchFailed, ioFailed, landingPages, delays>>

\* saveDeviceMetadata throws
SaveMetadataFail ==
  /\ pc = "meta"
  /\ pc' = "aborted"
  /\ outcome' = "error"
  /\ UNCHANGED <<environment, files, published, runs, i, results, deviceMetadata, previousMetadata,
                 device, summary, observed>>

\* collectJsonFiles(dataDir) made relative to the docs root: devices.json and
\* every monthly file of every device, as path segments
relativeLinks ==
  (IF metadataFile.exists THEN {<<"data", "devices.json">>} ELSE {})
  \cup { <<"data", "device_" \o p[1], "hourly", p[2]>> :
           p \in {q \in DeviceIds \X Months : hourly[q[1]][q[2]].exists} }
  \cup { <<"data", "device_" \o p[1], "daily", p[2]>> :
           p \in {q \in DeviceIds \X Months : daily[q[1]][q[2]].exists} }
  \cup { <<"data", "device_" \o p[1], p[2]>> :
           p \in {q \in DeviceIds \X Months : legacy[q[1]][q[2]].exists} }

\* generateLandingPage: the renderer is called with no argument, the paths
\* are enumerated afterwards and only counted in the log line
GenerateLandingPage ==
  /\ pc = "page"
  /\ landingPage' = TRUE
  /\ renderedLinks' = {}
  /\ landingPages' = landingPages + 1
  /\ pc' = "summary"
  /\ UNCHANGED <<environment, files, metadataFile, runs, i, results, deviceMetadata, previousMetadata,
                 device, summary, outcome, fetchFailed, ioFailed, metadataSaves, delays>>

\* generateLandingPage throws
GenerateLandingPageFail ==
  /\ pc = "page"
  /\ pc' = "aborted"
  /\ outcome' = "error"
  /\ UNCHANGED <<environment, files, published, runs, i, results, deviceMetadata, previousMetadata,
                 device, summary, observed>>

\* createSummary, then return it or throw if any device failed
Finish ==
  /\ pc = "summary"
  /\ summary' = createSummary(results, Now(runs), Now(runs))
  /\ outcome' = RunOutcome(createSummary(results, Now(runs), Now(runs)))
  /\ pc' = "done"
  /\ UNCHANGED <<environment, files, published, runs, i, results, deviceMetadata, previousMetadata,
                 device, observed>>

\* the process is killed from outside mid-run: its memory is gone, the files
\* stay as they are
Kill ==
  /\ pc \in {"collect", "monthly", "migrate", "daily", "total", "delay", "meta", "page", "summary"}
  /\ pc' = "killed"
  /\ outcome' = "killed"
  /\ i' = 1
  /\ results' = <<>>
  /\ deviceMetadata' = <<>>
  /\ previousMetadata' = <<>>
  /\ dateRangeDays' = 0
  /\ dataPoints' = <<>>
  /\ lastDataTimestamp' = NoTimestamp
  /\ pending' = <<>>
  /\ totalPoints' = 0
  /\ summary' = NoSummary
  /\ fetchFailed' = {}
  /\ ioFailed' = {}
  /\ metadataSaves' = 0
  /\ landingPages' = 0
  /\ delays' = 0
  /\ UNCHANGED <<environment, files, published, runs>>

Next ==
  \/ StartRun
  \/ Fetch
  \/ FetchFail
  \/ SaveMonthly
  \/ SaveMonthlyFail
  \/ RemoveLegacy
  \/ RemoveLegacyFail
  \/ SaveDaily
  \/ SaveDailyFail
  \/ RecomputeTotal
  \/ RecomputeTotalFail
  \/ Delay
  \/ SaveMetadata
  \/ SaveMetadataFail
  \/ GenerateLandingPage
  \/ GenerateLandingPageFail
  \/ Finish
  \/ Kill

Spec == Init /\ [][Next]_vars

\* Runs in which nothing fails and the client reports each hour once.
NextSuccessful ==
  \/ StartRun
  \/ FetchDistinct
  \/ SaveMonthly
  \/ RemoveLegacy
  \/ SaveDaily
  \/ RecomputeTotal
  \/ Delay
  \/ SaveMetadata
  \/ GenerateLandingPage
  \/ Finish

SuccessfulRuns == Init /\ [][NextSuccessful]_vars

(***************************************************************************)
(* Runs whose awaited operations all settle: every fetch and every file    *)
(* operation resolves or rejects, and the process is not killed.           *)
(***************************************************************************)
\* the awaited steps of a run
RunStep ==
  \/ Fetch
  \/ FetchFail
  \/ SaveMonthly
  \/ SaveMonthlyFail
  \/ RemoveLegacy
  \/ RemoveLegacyFail
  \/ SaveDaily
  \/ SaveDailyFail
  \/ RecomputeTotal
  \/ RecomputeTotalFail
  \/ Delay
  \/ SaveMetadata
  \/ SaveMetadataFail
  \/ GenerateLandingPage
  \/ GenerateLandingPageFail
  \/ Finish

\* the first invocation on a data directory
StartFirstRun == runs = 0 /\ StartRun

NextSettling ==
  \/ StartFirstRun
  \/ Fetch
  \/ FetchFail
  \/ SaveMonthly
  \/ SaveMonthlyFail
  \/ RemoveLegacy
  \/ RemoveLegacyFail
  \/ SaveDaily
  \/ SaveDailyFail
  \/ RecomputeTotal
  \/ RecomputeTotalFail
  \/ Delay
  \/ SaveMetadata
  \/ SaveMetadataFail
  \/ GenerateLandingPage
  \/ GenerateLandingPageFail
  \/ Finish

SettlingRuns == Init /\ [][NextSettling]_vars /\ WF_vars(RunStep)

(***************************************************************************)
(* main.                                                                   *)
(***************************************************************************)
\* mutant: the process always exits with 0
processExitZero(runOutcome) == 0

\* process.exit(0) after collectAllDevices returned, process.exit(1) in the
\* catch
processExit(runOutcome) == IF runOutcome = "returned" THEN 0 ELSE 1

(***************************************************************************)
(* Configuration: dotenv.config() and loadConfig.  The value of an         *)
(* environment variable is a sequence of characters.                       *)
(***************************************************************************)
Digits == {"0", "1", "9"}
Characters == Digits \cup {"-", "a"}

DigitValue(c) == CASE c = "0" -> 0 [] c = "1" -> 1 [] c = "9" -> 9

\* values a variable can be given in .env
EnvValues ==
  {Unset} \cup { [set |-> TRUE, value |-> v] :
                   v \in UNION { [1..n -> Characters] : n \in 0..MaxValueLen } }

\* the longest prefix of s made of digits
RECURSIVE DigitPrefix(_)
DigitPrefix(s) ==
  IF s = <<>> \/ Head(s) \notin Digits THEN <<>>
  ELSE <<Head(s)>> \o DigitPrefix(Tail(s))

\* the number a sequence of digits writes in base 10
RECURSIVE Decimal(_)
Decimal(ds) ==
  IF ds = <<>> THEN 0
  ELSE 10 * Decimal(SubSeq(ds, 1, Len(ds) - 1)) + DigitValue(ds[Len(ds)])

NaN == [finite |-> FALSE, value |-> 0]

\* Number.parseInt(s, 10): an optional sign, then the leading digits; what
\* follows them is ignored, and without a leading digit the result is NaN
parseInt(s) ==
  LET negative == s # <<>> /\ Head(s) = "-"
      digits   == DigitPrefix(IF negative THEN Tail(s) ELSE s)
  IN  IF digits = <<>> THEN NaN
      ELSE [finite |-> TRUE,
            value  |-> IF negative THEN 0 - Decimal(digits) ELSE Decimal(digits)]

Min(a, b) == IF a < b THEN a ELSE b
Max(a, b) == IF a > b THEN a ELSE b

\* mutant: the parsed value is used as it is
resolveDaysToFetchUnclamped(envValue, defaultValue) ==
  LET parsed == IF envValue.set /\ envValue.value # <<>>
                THEN parseInt(envValue.value) ELSE NaN
  IN  IF parsed.finite THEN parsed.value ELSE defaultValue

resolveDaysToFetch(envValue, defaultValue) ==
  LET parsed == IF envValue.set /\ envValue.value # <<>>
                THEN parseInt(envValue.value) ELSE NaN
  IN  IF parsed.finite
      THEN Min(Max(parsed.value, MIN_DAYS_TO_FETCH), MAX_DAYS_TO_FETCH)
      ELSE defaultValue

validateApiKey(apiKey) ==
  LET errors == IF ~apiKey THEN <<"MISSING_API_KEY">> ELSE <<>>
  IN  [valid |-> errors = <<>>, errors |-> errors]

validateDevices(list) ==
  LET errors == IF Len(list) = 0 THEN <<"NO_DEVICES">> ELSE <<>>
  IN  [valid |-> errors = <<>>, errors |-> errors]

validateDaysToFetch(days) ==
  LET errors == (IF days < MIN_DAYS_TO_FETCH THEN <<"INVALID_DAYS">> ELSE <<>>)
                \o (IF days > MAX_DAYS_TO_FETCH THEN <<"cannot exceed">> ELSE <<>>)
  IN  [valid |-> errors = <<>>, errors |-> errors]

validateConfiguration(c) ==
  LET allErrors == validateApiKey(c.apiKey).errors \o validateDevices(c.devices).errors
                   \o validateDaysToFetch(c.daysToFetch).errors
                   \o validateDaysToFetch(c.initialDaysToFetch).errors
  IN  [valid |-> allErrors = <<>>, errors |-> allErrors]

loadConfig(env) ==
  LET daysToFetch        == resolveDaysToFetch(env.TELRAAM_DAYS_TO_FETCH,
                                               DEFAULT_DAYS_TO_FETCH)
      initialDaysToFetch == resolveDaysToFetch(env.TELRAAM_INITIAL_DAYS_TO_FETCH,
                                               DEFAULT_INITIAL_DAYS_TO_FETCH)
      validation == validateConfiguration(
                      [apiKey |-> env.apiKey, devices |-> ConfiguredDevices,
                       daysToFetch |-> daysToFetch,
                       initialDaysToFetch |-> initialDaysToFetch])
  IN  IF validation.valid
      THEN [loaded |-> TRUE, threw |-> FALSE, daysToFetch |-> daysToFetch,
            initialDaysToFetch |-> initialDaysToFetch]
      ELSE [loaded |-> TRUE, threw |-> TRUE, daysToFetch |-> 0,
            initialDaysToFetch |-> 0]

\* dotenv.config(): the variables of .env become part of process.env
DotenvConfig ==
  /\ ~processEnv.loaded
  /\ \E key \in BOOLEAN, days \in EnvValues, initial \in EnvValues :
       processEnv' = [ loaded |-> TRUE, apiKey |-> key,
                       TELRAAM_DAYS_TO_FETCH |-> days,
                       TELRAAM_INITIAL_DAYS_TO_FETCH |-> initial ]
  /\ UNCHANGED <<collector, retry, loadedConfig>>

\* const config = loadConfig()
LoadConfig ==
  /\ processEnv.loaded
  /\ ~loadedConfig.loaded
  /\ loadedConfig' = loadConfig(processEnv)
  /\ UNCHANGED <<collector, retry, processEnv>>

ConfigNext == DotenvConfig \/ LoadConfig

Configuring == Init /\ [][ConfigNext]_vars

(***************************************************************************)
(* RetryStrategy.execute, one action per invocation of the operation and   *)
(* per backoff sleep.                                                      *)
(***************************************************************************)
\* the failures an API call may meet; each attempt's failure is its own
\* error object
ApiFailures(attempt) ==
  { [name |-> "ETIMEDOUT", retryable |-> TRUE,  attempt |-> attempt],
    [name |-> "HTTP 503",  retryable |-> TRUE,  attempt |-> attempt],
    [name |-> "HTTP 401",  retryable |-> FALSE, attempt |-> attempt] }

\* mutant: every failure is retried
shouldRetryAlways(error) == TRUE

\* the default retry predicate
shouldRetry(error) == error.retryable

\* exponential backoff: the delay doubles per attempt
RECURSIVE backoffDelay(_)
backoffDelay(attempt) ==
  IF attempt <= 1 THEN BASE_DELAY_MS ELSE 2 * backoffDelay(attempt - 1)

\* mutant: the first failure is the one kept
raisedOnExhaustionFirst(failures) == Head(failures)

\* the failure re-raised: the last one caught
raisedOnExhaustion(failures) == failures[Len(failures)]

\* a client call begins, with the policy it was constructed with
RetryStart ==
  /\ retry.state = "idle"
  /\ \E n \in 1..MAX_ATTEMPTS :
       retry' = [RetryIdle EXCEPT !.maxAttempts = n, !.state = "calling"]
  /\ UNCHANGED <<collector, processEnv, loadedConfig>>

\* the operation is invoked and resolves
AttemptSucceeds ==
  /\ retry.state = "calling"
  /\ retry' = [retry EXCEPT !.attempts = @ + 1, !.returned = TRUE, !.state = "finished"]
  /\ UNCHANGED <<collector, processEnv, loadedConfig>>

\* the operation is invoked and rejects
AttemptFails ==
  /\ retry.state = "calling"
  /\ \E error \in ApiFailures(retry.attempts + 1) :
       LET caught == Append(retry.failures, error)
       IN  IF retry.attempts + 1 >= retry.maxAttempts \/ ~shouldRetry(error)
             THEN retry' = [retry EXCEPT !.attempts = @ + 1, !.failures = caught,
                                         !.raised = << raisedOnExhaustion(caught) >>,
                                         !.state = "finished"]
             ELSE retry' = [retry EXCEPT !.attempts = @ + 1, !.failures = caught,
                                         !.state = "waiting"]
  /\ UNCHANGED <<collector, processEnv, loadedConfig>>

\* the backoff sleep before the next attempt
Backoff ==
  /\ retry.state = "waiting"
  /\ retry' = [retry EXCEPT !.slept = Append(@, backoffDelay(retry.attempts)),
                            !.state = "calling"]
  /\ UNCHANGED <<collector, processEnv, loadedConfig>>

RetryNext ==
  \/ RetryStart
  \/ AttemptSucceeds
  \/ AttemptFails
  \/ Backoff

\* One call of the client through RetryStrategy.execute.
Retrying == Init /\ [][RetryNext]_vars

(***************************************************************************)
(* Properties.                                                             *)
(***************************************************************************)
LoopDone == pc \in {"meta", "page", "summary", "done"}

InLoop == pc \in {"collect", "monthly", "migrate", "daily", "total", "delay"}

\* C1 (per-device isolation): a failing fetch never ends the run; once the
\* loop is over there is one result per configured device, in order; every
\* device whose fetch failed is marked failed; with no storage failure the
\* failed results are exactly those devices, and the summary's failedDevices
\* is their number.
PerDeviceIsolation ==
  /\ (pc = "aborted" /\ ioFailed = {}) => Len(results) = Len(devices)
  /\ LoopDone =>
       /\ Len(results) = Len(devices)
       /\ \A k \in DOMAIN results :
            /\ results[k].deviceId = devices[k].id
            /\ devices[k].id \in fetchFailed => ~results[k].success
            /\ ioFailed = {} => (results[k].success <=> devices[k].id \notin fetchFailed)
  /\ (pc = "done" /\ ioFailed = {}) =>
       /\ summary.failedDevices = Cardinality(fetchFailed)
       /\ summary.results = results

\* C1 witness: the first device's fetch failed, the second device was still
\* collected and saved, and the summary counts one failure.
PerDeviceIsolationWitness ==
  /\ pc = "done"
  /\ Len(devices) = 2
  /\ fetchFailed = {devices[1].id}
  /\ ~results[1].success
  /\ results[2].success
  /\ results[2].dataPointsCollected > 0
  /\ summary.failedDevices = 1

\* C2 (aggregate failure policy): the run that reaches its end throws the
\* aggregate failure exactly when some result is failed, and returns the
\* summary exactly when every result is successful.
AggregateFailurePolicy ==
  /\ outcome \in {"failed", "returned"} <=> pc = "done"
  /\ pc = "done" =>
       /\ outcome = "failed" <=> \E k \in DOMAIN results : ~results[k].success
       /\ outcome = "returned" <=> \A k \in DOMAIN results : results[k].success
       /\ summary = createSummary(results, Now(runs), Now(runs))

\* C2 witness: a run of two devices, one failed and one successful with
\* zero readings, ends with the aggregate failure.
AggregateFailurePolicyWitness ==
  /\ pc = "done"
  /\ outcome = "failed"
  /\ \E k \in DOMAIN results : ~results[k].success
  /\ \E k \in DOMAIN results : results[k].success /\ results[k].dataPointsCollected = 0

\* C3 (metadata and landing page once, after the loop, before the outcome):
\* nothing is published while devices are processed; the metadata is saved
\* at most once and only when every device has its entry; the landing page
\* follows the metadata; and a run that returned or threw the aggregate
\* failure has saved the full list and generated the page exactly once.
PublishedOnceAfterLoop ==
  /\ InLoop => (metadataSaves = 0 /\ landingPages = 0)
  /\ metadataSaves <= 1
  /\ landingPages <= metadataSaves
  /\ (landingPages = 1 /\ pc # "done") => pc \in {"summary", "aborted"}
  /\ metadataSaves = 1 =>
       /\ Len(deviceMetadata) = Len(devices)
       /\ metadataFile = [exists |-> TRUE, list |-> deviceMetadata]
  /\ pc \in {"meta", "page", "summary"} => outcome = "running"
  /\ outcome \in {"failed", "returned"} =>
       /\ metadataSaves = 1
       /\ landingPages = 1
       /\ landingPage

\* C3 witness: a run with a failed device has published once and thrown.
PublishedOnceAfterLoopWitness ==
  /\ pc = "done"
  /\ outcome = "failed"
  /\ metadataSaves = 1
  /\ landingPages = 1
  /\ Len(metadataFile.list) = Len(devices)

\* what loadMonthlyData returns for a device and month in the current state
StoredMonthly(deviceId, month) ==
  loadMonthlyData(hourly[deviceId][month], legacy[deviceId][month])

DatesOf(s) == { s[k].date : k \in DOMAIN s }

\* C4 (the daily file is the aggregate of the monthly file): after
\* successful runs every entry of a stored daily file equals the entry
\* buildDailyEntries yields for that date from the stored monthly readings.
DailyAggregatesMonthly ==
  pc = "done" =>
    \A k \in DOMAIN devices, m \in Months :
      LET days == daily[devices[k].id][m].days
      IN  \A j \in DOMAIN days :
            days[j] = DailyEntryOf(StoredMonthly(devices[k].id, m).data, days[j].date)

\* C5 (daily date coverage): after successful runs the daily file of a
\* saved device and month has exactly one entry per date of the stored
\* hourly data.
DailyDateCoverage ==
  pc = "done" =>
    \A k \in DOMAIN devices, m \in Months :
      hourly[devices[k].id][m].exists =>
        LET days == daily[devices[k].id][m].days
        IN  /\ DatesOf(days) = DatesOf(hourly[devices[k].id][m].data)
            /\ Len(days) = Cardinality(DatesOf(days))

\* the readings loadMonthlyData finds for a device over all months
StoredReadings(deviceId) ==
  LET ms == SortAsc(Months)
  IN  SumSeq([k \in DOMAIN ms |-> Len(StoredMonthly(deviceId, ms[k]).data)])

\* C6 (total count recomputation): the totalDataPoints written to
\* devices.json for a device is the number of readings in all the monthly
\* files stored for it.
TotalCountsStoredReadings ==
  metadataSaves = 1 =>
    \A k \in DOMAIN metadataFile.list :
      metadataFile.list[k].totalDataPoints = StoredReadings(metadataFile.list[k].id)

HasStoredData(deviceId) == \E m \in Months : StoredMonthly(deviceId, m).exists

\* C7 (initial backfill): the window of a fetch is initialDaysToFetch for a
\* device with no stored data and daysToFetch for a device with stored data.
InitialBackfillWindow ==
  (pc = "monthly" /\ pending = groupByMonth(dataPoints)) =>
    dateRangeDays = IF HasStoredData(Dev.id) THEN config.daysToFetch
                    ELSE config.initialDaysToFetch

\* a file with its lastUpdated stamp blanked
Unstamped(f) == [f EXCEPT !.lastUpdated = 0]

\* C8 (run-level idempotence): once a device's batch has been saved, saving
\* the same batch again (a repeated run with the same readings) rewrites
\* every monthly and daily file of the batch with the same content, the
\* lastUpdated stamp aside, so the device's stored total is the same too.
RepeatedRunChangesNothing ==
  (pc = "total" /\ results[Len(results)].success /\ dataPoints # <<>>) =>
    LET groups == groupByMonth(dataPoints)
    IN  \A g \in DOMAIN groups :
          LET month == groups[g].month
              later == Now(runs + 1)
              again == updatedMonthlyData(StoredMonthly(Dev.id, month), Dev.id,
                          monthlyDataOf(Dev.id, month, groups[g].data, later), later)
              dailyAgain == updatedDailyData(daily[Dev.id][month], Dev.id, month,
                               buildDailyEntries(groups[g].data), later)
          IN  /\ Unstamped(again) = Unstamped(hourly[Dev.id][month])
              /\ Len(again.data) = Len(hourly[Dev.id][month].data)
              /\ Unstamped(dailyAgain) = Unstamped(daily[Dev.id][month])

\* C8 witness: the second run has saved a batch of two readings for a device
\* whose metadata already counted two readings, and the stored total is
\* still two.
RepeatedRunWitness ==
  /\ pc = "total"
  /\ runs = 2
  /\ results[Len(results)].success
  /\ results[Len(results)].dataPointsCollected = 2
  /\ previousMetadata # <<>>
  /\ previousMetadata[1].id = Dev.id
  /\ previousMetadata[1].totalDataPoints = 2
  /\ getTotalHourlyDataPoints(Dev.id) = 2

\* C9 (monthly file invariant): every stored monthly file is strictly
\* ascending by (date, hour), so without duplicate keys, and holds only
\* readings of its own month.
MonthlyFileInvariant ==
  \A d \in DeviceIds, m \in Months :
    \A f \in {hourly[d][m], legacy[d][m]} :
      f.exists =>
        /\ f.month = m
        /\ f.device_id = d
        /\ \A j \in DOMAIN f.data : MonthOf(f.data[j].date) = f.month
        /\ \A j \in 1..(Len(f.data) - 1) : KeyNum(f.data[j]) < KeyNum(f.data[j + 1])

\* C9 witness: a batch handed over in descending order has been merged into
\* a file that now holds three readings.
MonthlyFileInvariantWitness ==
  /\ pc = "daily"
  /\ Len(dataPoints) = 2
  /\ KeyNum(dataPoints[1]) > KeyNum(dataPoints[2])
  /\ Len(hourly[Dev.id][202405].data) = 3

\* C10 (dedup by key, last write wins): right after a monthly save every
\* key of the incoming readings is stored exactly once, holding the last
\* incoming reading with that key.
LastWriteWins ==
  pc = "daily" =>
    LET incoming == Head(pending).data
        stored   == hourly[Dev.id][Head(pending).month].data
    IN  \A j \in DOMAIN incoming :
          LET hits == { k \in DOMAIN stored : KeyNum(stored[k]) = KeyNum(incoming[j]) }
          IN  /\ Cardinality(hits) = 1
              /\ \A k \in hits :
                   /\ stored[k] = LastWithKey(incoming, KeyNum(incoming[j]))
                   /\ (\A n \in DOMAIN incoming :
                         n > j => KeyNum(incoming[n]) # KeyNum(incoming[j]))
                        => stored[k] = incoming[j]

\* C10 witness: the daily file still shows that the previous save of
\* 2024-05-31 stored hour 0 with car = 20; the batch now saved holds hour 0
\* with car = 10, and that is what the monthly file holds.
LastWriteWinsWitness ==
  /\ pc = "daily"
  /\ dataPoints = << Reading(20240531, 0, 10) >>
  /\ \E j \in DOMAIN daily[Dev.id][202405].days :
       daily[Dev.id][202405].days[j] = [date |-> 20240531, car |-> 20, hours_covered |-> 1]
  /\ \E k \in DOMAIN hourly[Dev.id][202405].data :
       hourly[Dev.id][202405].data[k] = Reading(20240531, 0, 10)
  /\ \A k \in DOMAIN hourly[Dev.id][202405].data :
       hourly[Dev.id][202405].data[k] # Reading(20240531, 0, 20)

\* s is X sorted and deduplicated: strictly ascending by (date, hour), one
\* reading for each key of X, the last of X with that key
IsSortedDedupe(s, X) ==
  /\ \A j \in 1..(Len(s) - 1) : KeyNum(s[j]) < KeyNum(s[j + 1])
  /\ { KeyNum(s[k]) : k \in DOMAIN s } = { KeyNum(X[k]) : k \in DOMAIN X }
  /\ \A k \in DOMAIN s :
       \E j \in DOMAIN X :
         /\ s[k] = X[j]
         /\ \A n \in DOMAIN X : n > j => KeyNum(X[n]) # KeyNum(X[j])

\* C11 (idempotent merge): for the readings R handed to saveMonthlyData,
\* merging R into the merge of nothing with R gives that merge again, on the
\* function and on the file saveMonthlyData would write; merging R with
\* itself, and the stored file's readings with themselves, gives the sorted,
\* deduplicated list.
MergeIsIdempotent ==
  pc = "migrate" =>
    LET R      == Head(pending).data
        month  == Head(pending).month
        X      == hourly[Dev.id][month].data
        once   == mergeDataPoints(Dev.id, <<>>, R)
        first  == updatedMonthlyData(NoMonthly, Dev.id,
                                     monthlyDataOf(Dev.id, month, R, Now(runs)), Now(runs))
        second == updatedMonthlyData(first, Dev.id,
                                     monthlyDataOf(Dev.id, month, R, Now(runs)), Now(runs))
    IN  /\ mergeDataPoints(Dev.id, once, R) = once
        /\ second.data = first.data
        /\ first.data = once
        /\ IsSortedDedupe(mergeDataPoints(Dev.id, R, R), R)
        /\ mergeDataPoints(Dev.id, X, X) = X

\* C11 witness: a batch that reports one hour twice, with different counts,
\* has been written as a single reading.
MergeIsIdempotentWitness ==
  /\ pc = "migrate"
  /\ Len(dataPoints) = 2
  /\ KeyNum(dataPoints[1]) = KeyNum(dataPoints[2])
  /\ dataPoints[1] # dataPoints[2]
  /\ hourly[Dev.id][202405].data = << dataPoints[2] >>

\* the step in which saveDailyData writes the daily file of the month at hand
SaveDailyStep == pc = "daily" /\ pc' \in {"monthly", "total"} /\ pending' = Tail(pending)

\* C12 (the daily merge replaces, never sums): when saveDailyData writes,
\* every incoming entry is afterwards the one stored entry of its date,
\* whole; every stored entry of a date that is not incoming is kept as it
\* was; no other entry appears; the entries are strictly ascending by date.
DailyMergeReplaces ==
  [][ SaveDailyStep =>
        LET month    == Head(pending).month
            incoming == buildDailyEntries(Head(pending).data)
            before   == daily[Dev.id][month].days
            after    == daily'[Dev.id][month].days
        IN  /\ \A j \in DOMAIN incoming :
                 { k \in DOMAIN after : after[k].date = incoming[j].date }
                   = { k \in DOMAIN after : after[k] = incoming[j] }
            /\ \A j \in DOMAIN incoming : \E k \in DOMAIN after : after[k] = incoming[j]
            /\ \A j \in DOMAIN before :
                 before[j].date \notin DatesOf(incoming) =>
                   \E k \in DOMAIN after : after[k] = before[j]
            /\ DatesOf(after) = DatesOf(before) \cup DatesOf(incoming)
            /\ \A k \in 1..(Len(after) - 1) : after[k].date < after[k + 1].date
    ]_vars

\* C12 witness: the first run stored two hours of 2024-05-31 (an entry with
\* hours_covered = 2), the second run saved one reading of that day with
\* car = 10, and the entry now is car = 10, hours_covered = 1.
DailyMergeReplacesWitness ==
  /\ pc = "total"
  /\ runs = 2
  /\ previousMetadata # <<>>
  /\ previousMetadata[1].totalDataPoints = 2
  /\ dataPoints = << Reading(20240531, 0, 10) >>
  /\ Len(hourly[Dev.id][202405].data) = 2
  /\ \A k \in DOMAIN hourly[Dev.id][202405].data :
       hourly[Dev.id][202405].data[k].date = 20240531
  /\ daily[Dev.id][202405].days =
       << [date |-> 20240531, car |-> 10, hours_covered |-> 1] >>

\* C12 witness of the kept entry: the entry of 2024-05-30 stands beside the
\* entry of 2024-05-31 that a later save brought.
DailyMergeKeepsWitness ==
  /\ pc = "total"
  /\ runs = 2
  /\ dataPoints = << Reading(20240531, 0, 10) >>
  /\ DatesOf(daily[Dev.id][202405].days) = {20240530, 20240531}

\* the sum of car over the readings of points at the positions idx
RECURSIVE CarsAt(_, _)
CarsAt(points, idx) ==
  IF idx = {} THEN 0
  ELSE LET k == CHOOSE x \in idx : TRUE
       IN  points[k].car + CarsAt(points, idx \ {k})

\* C13 (aggregation correctness): buildDailyEntries of the readings handed
\* to the daily save has one entry per distinct date, ascending by date,
\* each with the sum of its date's counts and the number of its date's
\* readings; the first daily file of a month is exactly these entries; no
\* readings give no entries.
AggregationIsCorrect ==
  /\ buildDailyEntries(<<>>) = <<>>
  /\ pc = "daily" =>
       LET points  == Head(pending).data
           entries == buildDailyEntries(points)
       IN  /\ Len(entries) = Cardinality(DatesOf(points))
           /\ DatesOf(entries) = DatesOf(points)
           /\ \A k \in 1..(Len(entries) - 1) : entries[k].date < entries[k + 1].date
           /\ \A k \in DOMAIN entries :
                LET idx == { j \in DOMAIN points : points[j].date = entries[k].date }
                IN  /\ entries[k].car = CarsAt(points, idx)
                    /\ entries[k].hours_covered = Cardinality(idx)
  /\ (pc = "total" /\ runs = 1 /\ results[Len(results)].success) =>
       LET groups == groupByMonth(dataPoints)
       IN  \A g \in DOMAIN groups :
             LET days == daily[Dev.id][groups[g].month].days
                 points == groups[g].data
             IN  /\ DatesOf(days) = DatesOf(points)
                 /\ \A k \in DOMAIN days :
                      LET idx == { j \in DOMAIN points : points[j].date = days[k].date }
                      IN  /\ days[k].car = CarsAt(points, idx)
                          /\ days[k].hours_covered = Cardinality(idx)

\* C13 witness: two readings of 2024-05-31 with car = 20 and car = 10 were
\* saved as one entry with car = 30 and hours_covered = 2.
AggregationIsCorrectWitness ==
  /\ pc = "total"
  /\ runs = 1
  /\ dataPoints = << Reading(20240531, 0, 20), Reading(20240531, 1, 10) >>
  /\ daily[Dev.id][202405].days =
       << [date |-> 20240531, car |-> 30, hours_covered |-> 2] >>

\* the records of a device in the metadata loaded at the start of the run
PreviousRecords(deviceId) ==
  { k \in DOMAIN previousMetadata : previousMetadata[k].id = deviceId }

\* C14 (metadata fallback): the entry of a device that failed or returned
\* no readings carries the lastUpdated of the device's record in the
\* previously stored metadata when there is one, and the current time when
\* there is none; so does the entry written to devices.json.
MetadataFallback ==
  /\ \A k \in DOMAIN deviceMetadata :
       (~results[k].success \/ results[k].dataPointsCollected = 0) =>
         /\ \A p \in PreviousRecords(devices[k].id) :
              deviceMetadata[k].lastUpdated = previousMetadata[p].lastUpdated
         /\ PreviousRecords(devices[k].id) = {} =>
              deviceMetadata[k].lastUpdated = Now(runs)
  /\ \A k \in DOMAIN deviceMetadata :
       deviceMetadata[k].lastUpdated = Now(runs) =>
         /\ PreviousRecords(devices[k].id) = {}
         /\ ~results[k].success \/ results[k].dataPointsCollected = 0
  /\ metadataSaves = 1 => metadataFile.list = deviceMetadata

\* C14 witness: in the second run the first device failed and the second
\* returned nothing; devices.json keeps for both the reading date the first
\* run recorded.
MetadataFallbackWitness ==
  /\ pc = "done"
  /\ runs = 2
  /\ Len(devices) = 2
  /\ ~results[1].success
  /\ results[2].success /\ results[2].dataPointsCollected = 0
  /\ Len(previousMetadata) = 2
  /\ \A k \in {1, 2} :
       /\ previousMetadata[k].lastUpdated = 20240531
       /\ metadataFile.list[k].lastUpdated = 20240531

\* C15 (lastUpdated tracks the latest reading ever observed): the entry
\* written to devices.json for a device never carries an earlier reading
\* date than the reading date the device's previous record carried.
LastUpdatedNeverMovesBack ==
  metadataSaves = 1 =>
    \A k \in DOMAIN metadataFile.list :
      \A p \in PreviousRecords(metadataFile.list[k].id) :
        previousMetadata[p].lastUpdated < Now(0) =>
          metadataFile.list[k].lastUpdated >= previousMetadata[p].lastUpdated

\* C16 (failure containment): a run ends without its summary only in the
\* final metadata-save / landing-page step, that is, when every device has
\* its result and its metadata entry.
FailuresContained ==
  pc = "aborted" =>
    /\ Len(results) = Len(devices)
    /\ Len(deviceMetadata) = Len(devices)

\* the messages saveMonthlyData and saveDailyData wrap around a cause
StorageErrorMessages(cause) ==
  { <<"Failed to save monthly data: ", cause>>, <<"Failed to save daily data: ", cause>> }

\* C17 (a storage failure is fatal to one device only): a device whose
\* monthly or daily save failed has a failed result whose error is the
\* storage error wrapping the cause's message; the failure is recorded
\* before anything else can end the run; and once the loop is over every
\* device has its result, the devices without a failure successful ones.
StorageFailureIsPerDevice ==
  /\ \A k \in DOMAIN results :
       (devices[k].id \in ioFailed \ fetchFailed /\ ~results[k].success) =>
         /\ results[k].error \in StorageErrorMessages("EIO")
         /\ results[k].dataPointsCollected = 0
  /\ (pc = "aborted" /\ i <= Len(devices)) => Len(results) = i
  /\ pc \in {"collect", "monthly", "migrate", "daily"} => Dev.id \notin ioFailed
  /\ LoopDone =>
       /\ Len(results) = Len(devices)
       /\ \A k \in DOMAIN results :
            /\ devices[k].id \in ioFailed => ~results[k].success
            /\ devices[k].id \notin (ioFailed \cup fetchFailed) => results[k].success

\* C17 witness: the first device's monthly save failed; the second device
\* was then fetched and saved, and the run ended with one failure.
StorageFailureIsPerDeviceWitness ==
  /\ pc = "done"
  /\ Len(devices) = 2
  /\ ioFailed = {devices[1].id}
  /\ results[1].error = MonthlyErrorMessage
  /\ results[2].success
  /\ results[2].dataPointsCollected = 1
  /\ hourly[devices[2].id][202405].exists
  /\ daily[devices[2].id][202405].exists
  /\ ~hourly[devices[1].id][202405].exists

KeysOf(s) == { KeyNum(s[k]) : k \in DOMAIN s }

\* C18 (legacy migration ordering): a legacy monthly file changes only by
\* being deleted, and only when this run's merged file, holding all its
\* keys, stands written at the hourly location; a step in which
\* saveMonthlyData fails leaves the legacy file as it was; and when
\* saveMonthlyData has succeeded there is no legacy file.
LegacyRemovedAfterWrite ==
  [][ /\ \A d \in DeviceIds, m \in Months :
           legacy'[d][m] # legacy[d][m] =>
             /\ legacy'[d][m] = NoMonthly
             /\ hourly[d][m].exists
             /\ hourly[d][m].lastUpdated = Now(runs)
             /\ KeysOf(legacy[d][m].data) \subseteq KeysOf(hourly[d][m].data)
             /\ hourly'[d][m] = hourly[d][m]
      /\ (pc \in {"monthly", "migrate"} /\ pc' = "total") => legacy' = legacy
      /\ (pc = "monthly" /\ pc' = "total") => hourly' = hourly
      /\ (pc = "migrate" /\ pc' = "daily") =>
           /\ ~legacy'[Dev.id][Head(pending).month].exists
           /\ hourly'[Dev.id][Head(pending).month].exists
    ]_vars

\* C18 witness: the legacy file of 2024-05 is gone and its reading of
\* 2024-05-30 stands in the hourly file beside the fetched one.
LegacyRemovedAfterWriteWitness ==
  /\ pc = "daily"
  /\ dataPoints = << Reading(20240531, 0, 10) >>
  /\ ~legacy[Dev.id][202405].exists
  /\ hourly[Dev.id][202405].data = << Reading(20240530, 0, 10), Reading(20240531, 0, 10) >>
  /\ upstream[Dev.id] = BusyReadings

\* C18 witness of the failed write: the save failed and the legacy file is
\* there as before, with no file at the hourly location.
LegacyKeptOnFailureWitness ==
  /\ pc = "total"
  /\ ~results[Len(results)].success
  /\ results[Len(results)].error = MonthlyErrorMessage
  /\ legacy[Dev.id][202405] = LegacyFile(Dev.id)
  /\ ~hourly[Dev.id][202405].exists

\* the reading of s with key number n
WithKey(s, n) == s[CHOOSE k \in DOMAIN s : KeyNum(s[k]) = n]

\* C19 (migration loses no data): when saveMonthlyData writes, every key
\* stored before at the hourly or the legacy location is in the written
\* file, with the incoming reading if the batch holds the key and the
\* stored one otherwise; the removal of the legacy file that completes the
\* save leaves the written file as it is, and every key of the removed file
\* is in it.
MigrationLosesNoData ==
  [][ /\ (pc = "monthly" /\ pc' = "migrate") =>
           LET month    == Head(pending).month
               incoming == Head(pending).data
               before   == hourly[Dev.id][month].data \o legacy[Dev.id][month].data
               stored   == StoredMonthly(Dev.id, month).data
               after    == hourly'[Dev.id][month].data
           IN  /\ hourly'[Dev.id][month].exists
               /\ KeysOf(before) \subseteq KeysOf(after)
               /\ \A n \in KeysOf(before) :
                    WithKey(after, n) =
                      IF n \in KeysOf(incoming) THEN LastWithKey(incoming, n)
                      ELSE WithKey(stored, n)
      /\ (pc = "migrate" /\ pc' = "daily") =>
           /\ hourly' = hourly
           /\ KeysOf(legacy[Dev.id][Head(pending).month].data)
                \subseteq KeysOf(hourly'[Dev.id][Head(pending).month].data)
    ]_vars

\* C19 witness: the legacy file held 2024-05-30 hour 0; after the save the
\* hourly file holds it together with the two fetched hours of 2024-05-31.
MigrationLosesNoDataWitness ==
  /\ pc = "daily"
  /\ Len(dataPoints) = 2
  /\ ~legacy[Dev.id][202405].exists
  /\ Len(hourly[Dev.id][202405].data) = 3
  /\ hourly[Dev.id][202405].data[1] = Reading(20240530, 0, 10)
  /\ hourly[Dev.id][202405].lastUpdated = Now(1)
  /\ upstream[Dev.id] = BusyReadings

\* C20 (merge-only storage): no step of any run removes a (date, hour) key
\* from what loadMonthlyData returns for a device and month, and no step
\* deletes a file at the hourly location.
MergeOnlyStorage ==
  [][ \A d \in DeviceIds, m \in Months :
        /\ KeysOf(StoredMonthly(d, m).data)
             \subseteq KeysOf(loadMonthlyData(hourly'[d][m], legacy'[d][m]).data)
        /\ hourly[d][m].exists => hourly'[d][m].exists
        /\ StoredMonthly(d, m).exists => loadMonthlyData(hourly'[d][m], legacy'[d][m]).exists
    ]_vars

\* C20 witness: after two runs, the second of which fetched only hour 1,
\* the file holds the migrated legacy reading and both fetched hours.
MergeOnlyStorageWitness ==
  /\ pc = "done"
  /\ runs = 2
  /\ results[1].dataPointsCollected = 1
  /\ previousMetadata # <<>>
  /\ previousMetadata[1].totalDataPoints = 2
  /\ hourly[devices[1].id][202405].lastUpdated = Now(2)
  /\ hourly[devices[1].id][202405].data =
       << Reading(20240530, 0, 10), Reading(20240531, 0, 10), Reading(20240531, 1, 10) >>

\* the files of a device and month: hourly, legacy, daily
FilesOf(d, m) == << hourly[d][m], legacy[d][m], daily[d][m] >>

\* C21 (durability frame): a step changes files only within a save, and
\* then only the hourly, legacy and daily file of the device and month being
\* saved, the monthly save leaving the daily file and the daily save the
\* monthly files; a step in which a save fails, or the process is killed,
\* changes no file at all.
DurabilityFrame ==
  [][ /\ \A d \in DeviceIds, m \in Months :
           << hourly'[d][m], legacy'[d][m], daily'[d][m] >> # FilesOf(d, m) =>
             /\ pc \in {"monthly", "migrate", "daily"}
             /\ d = Dev.id
             /\ m = Head(pending).month
      /\ pc \in {"monthly", "migrate"} => daily' = daily
      /\ pc = "daily" => (hourly' = hourly /\ legacy' = legacy)
      /\ (pc \in {"monthly", "migrate", "daily"}
            /\ (pc' = "killed" \/ (pc' = "total" /\ ~results'[Len(results')].success)))
           => <<hourly', legacy', daily'>> = <<hourly, legacy, daily>>
    ]_vars

\* C21 witness: the second device's daily save failed after its monthly
\* file was written; the first device's files stand as its own save left
\* them.
DurabilityFrameWitness ==
  /\ pc = "total"
  /\ i = 2
  /\ results[2].error = DailyErrorMessage
  /\ hourly[devices[2].id][202405].exists
  /\ ~daily[devices[2].id][202405].exists
  /\ hourly[devices[1].id][202405].data = << Reading(20240531, 0, 10) >>
  /\ daily[devices[1].id][202405].days =
       << [date |-> 20240531, car |-> 10, hours_covered |-> 1] >>

\* C22 (the metadata is overwritten wholesale): once a run has saved the
\* metadata, devices.json holds one record per configured device, in the
\* configured order, with the device's id, name and location, whether the
\* device failed or not, and nothing else.
MetadataOverwrittenWholesale ==
  metadataSaves = 1 =>
    /\ metadataFile.exists
    /\ Len(metadataFile.list) = Len(devices)
    /\ \A k \in DOMAIN metadataFile.list :
         /\ metadataFile.list[k].id = devices[k].id
         /\ metadataFile.list[k].name = devices[k].name
         /\ metadataFile.list[k].location = devices[k].location

\* C22 witness: the previous devices.json listed a sensor that is no longer
\* configured; the run, whose one device failed, has written a file with
\* that device's record alone.
MetadataOverwrittenWholesaleWitness ==
  /\ pc = "done"
  /\ metadataSaves = 1
  /\ Len(devices) = 1
  /\ ~results[1].success
  /\ \E p \in DOMAIN previousMetadata : previousMetadata[p].id = ConfiguredDevices[2].id
  /\ Len(metadataFile.list) = 1
  /\ metadataFile.list[1].id = devices[1].id

\* C23 (RetryStrategy bounds the attempts): the operation is invoked at
\* most maxAttempts times; a call that returned did so at the invocation
\* after its last failure, every failure before it retryable; a
\* non-retryable failure is the last invocation and is what is raised, with
\* no sleep after it; and a call ends either by returning or by raising.
RetryBoundsAttempts ==
  /\ retry.attempts <= retry.maxAttempts
  /\ retry.maxAttempts <= MAX_ATTEMPTS
  /\ retry.returned =>
       /\ retry.state = "finished"
       /\ retry.attempts = Len(retry.failures) + 1
       /\ retry.raised = <<>>
       /\ \A k \in DOMAIN retry.failures : retry.failures[k].retryable
  /\ ~retry.returned => retry.attempts = Len(retry.failures)
  /\ \A k \in DOMAIN retry.failures :
       /\ retry.failures[k].attempt = k
       /\ ~retry.failures[k].retryable =>
            /\ k = Len(retry.failures)
            /\ retry.state = "finished"
            /\ retry.raised = << retry.failures[k] >>
  /\ Len(retry.slept) <= retry.attempts
  /\ retry.state = "finished" =>
       /\ retry.returned <=> retry.raised = <<>>
       /\ Len(retry.slept) = retry.attempts - 1
  /\ retry.state \in {"calling", "waiting"} => (~retry.returned /\ retry.raised = <<>>)

\* C23 witness: with three attempts allowed the first invocation met a
\* non-retryable failure, which was raised after that one invocation.
RetryBoundsAttemptsWitness ==
  /\ retry.maxAttempts = MAX_ATTEMPTS
  /\ retry.state = "finished"
  /\ retry.attempts = 1
  /\ Len(retry.raised) = 1
  /\ ~retry.raised[1].retryable

\* C23 witness of the success: the second invocation returned.
RetryStopsAtSuccessWitness ==
  /\ retry.maxAttempts = MAX_ATTEMPTS
  /\ retry.returned
  /\ retry.attempts = 2

\* C24 (RetryStrategy preserves the failure): when all maxAttempts
\* invocations failed with retryable failures, the failure raised is the
\* error object of the last invocation, as it was caught.
RetryPreservesFailure ==
  ( /\ retry.state = "finished"
    /\ ~retry.returned
    /\ retry.attempts = retry.maxAttempts
    /\ \A k \in DOMAIN retry.failures : retry.failures[k].retryable ) =>
      /\ Len(retry.failures) = retry.maxAttempts
      /\ retry.raised = << retry.failures[retry.maxAttempts] >>
      /\ retry.raised[1].attempt = retry.maxAttempts

\* C24 witness: three attempts failed, with a timeout, a timeout and a 503;
\* the 503 of the third attempt is raised.
RetryPreservesFailureWitness ==
  /\ retry.state = "finished"
  /\ retry.maxAttempts = MAX_ATTEMPTS
  /\ Len(retry.failures) = MAX_ATTEMPTS
  /\ retry.failures[1].name = "ETIMEDOUT"
  /\ retry.failures[MAX_ATTEMPTS].name = "HTTP 503"
  /\ retry.raised = << [name |-> "HTTP 503", retryable |-> TRUE, attempt |-> MAX_ATTEMPTS] >>
  /\ retry.slept = << BASE_DELAY_MS, 2 * BASE_DELAY_MS >>

\* C25 (no devices.json is not an error): a run that found no metadata file
\* goes on with the empty list: it is not ended by the load, its devices
\* have no previous lastUpdated, and their entries carry the result's
\* timestamp or the current time; until the run saves the metadata, the list
\* it works with is what the file held at its start.
MissingMetadataIsEmpty ==
  /\ (runs >= 1 /\ ~metadataFile.exists) =>
       /\ previousMetadata = <<>>
       /\ pc # "idle"
       /\ pc = "aborted" => (ioFailed # {} \/ Len(deviceMetadata) = Len(devices))
       /\ \A k \in DOMAIN deviceMetadata :
            /\ PreviousRecords(devices[k].id) = {}
            /\ deviceMetadata[k].lastUpdated =
                 IF results[k].lastUpdated # NoTimestamp THEN results[k].lastUpdated
                 ELSE Now(runs)
  /\ (InLoop \/ pc = "meta") => previousMetadata = loadDeviceMetadata(metadataFile).list

\* C25 witness: the first run, with no devices.json, has processed its only
\* device, which returned nothing, and stamped its entry with the current
\* time.
MissingMetadataIsEmptyWitness ==
  /\ runs = 1
  /\ pc = "meta"
  /\ ~metadataFile.exists
  /\ previousMetadata = <<>>
  /\ Len(deviceMetadata) = 1
  /\ results[1].success
  /\ deviceMetadata[1].lastUpdated = Now(1)

\* the device has no hourly directory: no file was ever saved there
NoHourlyDirectory(deviceId) == \A m \in Months : ~hourly[deviceId][m].exists

\* C26 (the total of a missing directory is 0, other errors propagate): a
\* device without an hourly directory is counted with 0 stored readings,
\* whatever lies at the legacy location; and when the recomputation throws,
\* the run ends there, with the device's result recorded but no metadata
\* entry and no count for it.
TotalOfMissingDirectoryIsZero ==
  /\ \A k \in DOMAIN deviceMetadata :
       NoHourlyDirectory(devices[k].id) => deviceMetadata[k].totalDataPoints = 0
  /\ (pc = "total" /\ NoHourlyDirectory(Dev.id)) => getTotalHourlyDataPoints(Dev.id) = 0
  /\ (pc = "aborted" /\ i <= Len(devices)) =>
       /\ outcome = "error"
       /\ Dev.id \in ioFailed
       /\ Len(results) = i
       /\ Len(deviceMetadata) = i - 1
       /\ metadataSaves = 0

\* C26 witness: the device's fetch failed, nothing was saved for it, its
\* legacy file holds a reading, and its metadata entry counts 0.
TotalOfMissingDirectoryIsZeroWitness ==
  /\ pc = "meta"
  /\ ~results[1].success
  /\ NoHourlyDirectory(devices[1].id)
  /\ legacy[devices[1].id][202405].exists
  /\ deviceMetadata[1].totalDataPoints = 0

\* C27 (exit status): a run that reached its end exits with 1 exactly when
\* some device's result is failed and with 0 exactly when every configured
\* device has a successful result; a run ended by an escaped error exits
\* with 1.
ExitStatus ==
  /\ pc = "done" =>
       /\ processExit(outcome) = 1 <=> \E k \in DOMAIN results : ~results[k].success
       /\ processExit(outcome) = 0 <=>
            /\ Len(results) = Len(devices)
            /\ \A k \in DOMAIN results : results[k].success
  /\ pc = "aborted" => processExit(outcome) = 1

\* C27 witness: of two devices one failed and one was collected; the
\* process exits with 1.
ExitStatusWitness ==
  /\ pc = "done"
  /\ Len(devices) = 2
  /\ results[1].success /\ results[1].dataPointsCollected = 1
  /\ ~results[2].success
  /\ processExit(outcome) = 1

\* C27 witness of the clean exit: both devices collected, exit code 0.
ExitStatusCleanWitness ==
  /\ pc = "done"
  /\ Len(devices) = 2
  /\ \A k \in DOMAIN results : results[k].success
  /\ processExit(outcome) = 0

\* s writes an integer from its first character to its last
IsInteger(s) ==
  LET body == IF s # <<>> /\ Head(s) = "-" THEN Tail(s) ELSE s
  IN  body # <<>> /\ \A k \in DOMAIN body : body[k] \in Digits

IntegerOf(s) ==
  IF Head(s) = "-" THEN 0 - Decimal(Tail(s)) ELSE Decimal(s)

Clamped(n) ==
  IF n < MIN_DAYS_TO_FETCH THEN MIN_DAYS_TO_FETCH
  ELSE IF n > MAX_DAYS_TO_FETCH THEN MAX_DAYS_TO_FETCH ELSE n

\* s starts with an integer: some prefix of s is an integer
HasLeadingInteger(s) == \E k \in 1..Len(s) : IsInteger(SubSeq(s, 1, k))

\* the longest prefix of s that is an integer
LeadingInteger(s) ==
  LET k == CHOOSE k \in 1..Len(s) :
             /\ IsInteger(SubSeq(s, 1, k))
             /\ \A j \in (k+1)..Len(s) : ~IsInteger(SubSeq(s, 1, j))
  IN  IntegerOf(SubSeq(s, 1, k))

\* what the loaded configuration holds for each of the two variables
Windows ==
  { [env |-> processEnv.TELRAAM_DAYS_TO_FETCH, days |-> loadedConfig.daysToFetch,
     default |-> DEFAULT_DAYS_TO_FETCH],
    [env |-> processEnv.TELRAAM_INITIAL_DAYS_TO_FETCH,
     days |-> loadedConfig.initialDaysToFetch,
     default |-> DEFAULT_INITIAL_DAYS_TO_FETCH] }

FetchWindowsPrefixWitness ==
  /\ loadedConfig.loaded /\ ~loadedConfig.threw
  /\ processEnv.TELRAAM_DAYS_TO_FETCH = [set |-> TRUE, value |-> <<"9", "a">>]
  /\ loadedConfig.daysToFetch = 9

\* C28 witness: an unset variable and one without a leading integer yield
\* the defaults.
FetchWindowsDefaultWitness ==
  /\ loadedConfig.loaded /\ ~loadedConfig.threw
  /\ processEnv.TELRAAM_DAYS_TO_FETCH = Unset
  /\ processEnv.TELRAAM_INITIAL_DAYS_TO_FETCH = [set |-> TRUE, value |-> <<"a", "1">>]
  /\ loadedConfig.daysToFetch = DEFAULT_DAYS_TO_FETCH
  /\ loadedConfig.initialDaysToFetch = DEFAULT_INITIAL_DAYS_TO_FETCH

\* C29 (landing page lists the stored files): when generateLandingPage has
\* written the landing page, the renderer was handed exactly the relative
\* paths of the JSON files stored at that moment.
LandingPageListsStoredFiles ==
  (pc = "summary" /\ landingPages = 1) => renderedLinks = relativeLinks

\* C30 (two-tier lookup): for every device and month loadMonthlyData returns
\* the file at the hourly location when there is one, the file at the legacy
\* location when there is none at the hourly location, and nothing only when
\* neither exists.
TwoTierLookup ==
  \A d \in DeviceIds, m \in Months :
    /\ hourly[d][m].exists => StoredMonthly(d, m) = hourly[d][m]
    /\ (~hourly[d][m].exists /\ legacy[d][m].exists) => StoredMonthly(d, m) = legacy[d][m]
    /\ ~StoredMonthly(d, m).exists <=> (~hourly[d][m].exists /\ ~legacy[d][m].exists)

\* C30 witness: a month has a file at both locations with different
\* contents, and the lookup returns the one at the hourly location.
TwoTierLookupWitness ==
  \E d \in DeviceIds, m \in Months :
    /\ hourly[d][m].exists /\ legacy[d][m].exists
    /\ hourly[d][m] # legacy[d][m]
    /\ StoredMonthly(d, m) = hourly[d][m]

\* C30 witness of the fallback: only the legacy location has the month and
\* the lookup returns that file.
TwoTierLookupLegacyWitness ==
  \E d \in DeviceIds, m \in Months :
    /\ pc = "monthly"
    /\ ~hourly[d][m].exists /\ legacy[d][m].exists
    /\ StoredMonthly(d, m) = legacy[d][m]

\* the device has a monthly or daily file written in the current run
WrittenInRun(d) ==
  \E m \in Months : hourly[d][m].lastUpdated = Now(runs) \/ daily[d][m].lastUpdated = Now(runs)

\* C31 (strictly sequential processing): results and metadata entries follow
\* the configured order; while device i is collected every earlier device has
\* its result and its metadata entry and no later device has a file written
\* in this run, and device i itself has none before its fetch; once the loop
\* is over there is exactly one result per configured device.
SequentialProcessing ==
  /\ \A k \in DOMAIN results : k <= Len(devices) /\ results[k].deviceId = devices[k].id
  /\ \A k \in DOMAIN deviceMetadata : k <= Len(devices) /\ deviceMetadata[k].id = devices[k].id
  /\ pc \in {"collect", "monthly", "migrate", "daily"} =>
       /\ i \in 1..Len(devices)
       /\ Len(results) = i - 1 /\ Len(deviceMetadata) = i - 1
  /\ pc = "total" => i \in 1..Len(devices) /\ Len(results) = i /\ Len(deviceMetadata) = i - 1
  /\ pc = "delay" => i < Len(devices) /\ Len(results) = i /\ Len(deviceMetadata) = i
  /\ InLoop => \A k \in DOMAIN devices :
                 /\ k > i => ~WrittenInRun(devices[k].id)
                 /\ (k = i /\ pc = "collect") => ~WrittenInRun(devices[k].id)
  /\ LoopDone => Len(results) = Len(devices) /\ Len(deviceMetadata) = Len(devices)

\* C31 witness: the second device is about to be fetched; the first has its
\* files, its result and its metadata entry, the second has nothing yet.
SequentialProcessingWitness ==
  /\ pc = "collect" /\ i = 2
  /\ results[1].success /\ results[1].dataPointsCollected = 1
  /\ deviceMetadata[1].totalDataPoints = 1
  /\ WrittenInRun(devices[1].id)
  /\ ~WrittenInRun(devices[2].id)

\* the months of the batch in hand, in the order saveDeviceData takes them
BatchMonths ==
  LET groups == groupByMonth(dataPoints)
  IN  [k \in DOMAIN groups |-> groups[k].month]

PendingMonths == { pending[k].month : k \in DOMAIN pending }

\* C32 (monthly before daily, month by month): in every run a daily file
\* written in the run has its month's hourly file written in the run; during
\* a device's save the months already passed have both files written, the
\* month in hand has its hourly file written before its daily file, and the
\* months still to come have neither.
MonthlyBeforeDaily ==
  /\ runs > 0 =>
       \A d \in DeviceIds, m \in Months :
         daily[d][m].exists =>
           (daily[d][m].lastUpdated = Now(runs) => hourly[d][m].lastUpdated = Now(runs))
  /\ pc \in {"monthly", "migrate", "daily"} =>
       /\ pending # <<>>
       /\ LET saved == Range(BatchMonths) \ PendingMonths
          IN  \A m \in saved :
                /\ hourly[Dev.id][m].lastUpdated = Now(runs)
                /\ daily[Dev.id][m].lastUpdated = Now(runs)
       /\ \A k \in 2..Len(pending) :
            /\ hourly[Dev.id][pending[k].month].lastUpdated # Now(runs)
            /\ daily[Dev.id][pending[k].month].lastUpdated # Now(runs)
       /\ daily[Dev.id][Head(pending).month].lastUpdated # Now(runs)
       /\ pc = "monthly" => hourly[Dev.id][Head(pending).month].lastUpdated # Now(runs)
       /\ pc \in {"migrate", "daily"} => hourly[Dev.id][Head(pending).month].lastUpdated = Now(runs)

\* C32 witness: of a batch over two months the first month has both files,
\* the second its hourly file and not yet its daily file.
MonthlyBeforeDailyWitness ==
  /\ pc = "daily"
  /\ Len(BatchMonths) = 2 /\ Len(pending) = 1
  /\ hourly[Dev.id][BatchMonths[1]].lastUpdated = Now(runs)
  /\ daily[Dev.id][BatchMonths[1]].lastUpdated = Now(runs)
  /\ hourly[Dev.id][BatchMonths[2]].lastUpdated = Now(runs)
  /\ ~daily[Dev.id][BatchMonths[2]].exists

\* a monthly file as a merge leaves it: of its device and month, strictly
\* ascending by (date, hour)
CompleteMonthly(f, d, m) ==
  /\ f.device_id = d /\ f.month = m
  /\ f.data # <<>>
  /\ \A j \in DOMAIN f.data : MonthOf(f.data[j].date) = m
  /\ \A j \in 1..(Len(f.data) - 1) : KeyNum(f.data[j]) < KeyNum(f.data[j + 1])

\* a daily file as a merge leaves it: strictly ascending by date
CompleteDaily(f, d, m) ==
  /\ f.device_id = d /\ f.month = m
  /\ f.days # <<>>
  /\ \A j \in DOMAIN f.days : MonthOf(f.days[j].date) = m /\ f.days[j].hours_covered > 0
  /\ \A j \in 1..(Len(f.days) - 1) : f.days[j].date < f.days[j + 1].date

\* C33 (killed mid-run): until every configured device has been processed
\* neither devices.json nor the landing page has been written in the run, so
\* what devices.json holds is what the run loaded at its start; every monthly
\* and daily file a killed run leaves behind is a complete merged file.
MetadataUntouchedMidRun ==
  /\ (InLoop \/ pc = "meta") =>
       /\ metadataSaves = 0 /\ landingPages = 0
       /\ loadDeviceMetadata(metadataFile).list = previousMetadata
       /\ ~metadataFile.exists => previousMetadata = <<>>
  /\ pc = "meta" => Len(results) = Len(devices)
  /\ pc = "page" => metadataSaves = 1 /\ landingPages = 0 /\ Len(results) = Len(devices)
  /\ pc = "killed" =>
       \A d \in DeviceIds, m \in Months :
         /\ hourly[d][m].exists => CompleteMonthly(hourly[d][m], d, m)
         /\ daily[d][m].exists => CompleteDaily(daily[d][m], d, m)

\* C33 witness: the first of two devices has been saved in the first run and
\* the second is being collected; there is no devices.json and no landing
\* page yet.
MetadataUntouchedMidRunWitness ==
  /\ pc = "collect" /\ i = 2 /\ runs = 1
  /\ WrittenInRun(devices[1].id)
  /\ ~metadataFile.exists /\ ~landingPage

\* C33 witness of the kill: a run was killed after it had written a monthly
\* and a daily file; devices.json and the landing page are missing.
KilledRunLeavesFilesWitness ==
  /\ pc = "killed" /\ runs = 1
  /\ \E d \in DeviceIds, m \in Months :
       hourly[d][m].lastUpdated = Now(runs) /\ daily[d][m].lastUpdated = Now(runs)
  /\ ~metadataFile.exists /\ ~landingPage

\* C34 (inter-device delay): with a positive requestDelayMs one delay has
\* been taken for every device before the current one, failed or not, a
\* delay is only ever under way between two devices, and a run over n
\* devices ends its loop with n - 1 delays; with requestDelayMs = 0 there is
\* never a delay.
InterDeviceDelay ==
  /\ pc \in {"collect", "monthly", "migrate", "daily", "total"} =>
       delays = IF requestDelayMs > 0 THEN i - 1 ELSE 0
  /\ pc = "delay" => requestDelayMs > 0 /\ i < Len(devices) /\ delays = i - 1
  /\ LoopDone => delays = IF requestDelayMs > 0 THEN Len(devices) - 1 ELSE 0

\* C34 witness: a run over two devices whose first device failed took its
\* one delay between them.
InterDeviceDelayWitness ==
  /\ pc = "done" /\ Len(devices) = 2 /\ requestDelayMs > 0
  /\ ~results[1].success
  /\ delays = 1

\* C34 witness: with requestDelayMs = 0 a run over two devices took no delay.
NoDelayWitness ==
  /\ pc = "done" /\ Len(devices) = 2 /\ requestDelayMs = 0
  /\ delays = 0

\* the dates of the batch that can be read
ParseableDates(points) ==
  { points[k].date : k \in { j \in DOMAIN points : Parseable(points[j].date) } }

\* C35 (latest observed reading timestamp): the lastUpdated of a successful
\* result is the greatest of the readable dates of the fetched batch,
\* readings without a readable date counting for nothing, and it is absent
\* when the batch has no readable date.
LatestTimestampOfBatch ==
  LET dates == ParseableDates(dataPoints)
  IN  /\ pc \in {"monthly", "migrate", "daily"} =>
           /\ dates # {}
           /\ lastDataTimestamp \in dates
           /\ \A d \in dates : d <= lastDataTimestamp
      /\ (pc = "total" /\ results[i].success) =>
           IF dates = {}
           THEN results[i].lastUpdated = NoTimestamp
           ELSE /\ results[i].lastUpdated \in dates
                /\ \A d \in dates : d <= results[i].lastUpdated

\* C35 witness: the batch ends with a reading whose date is no date; the
\* result carries the date of the reading before it.
LatestTimestampOfBatchWitness ==
  /\ pc = "total" /\ results[i].success
  /\ Len(dataPoints) = 2
  /\ dataPoints[1].date = 20240531 /\ ~Parseable(dataPoints[2].date)
  /\ results[i].lastUpdated = 20240531

\* C35 witness: no reading of the batch has a readable date and the result
\* has no lastUpdated.
NoTimestampWitness ==
  /\ pc = "total" /\ results[i].success
  /\ Len(dataPoints) = 2
  /\ dataPoints[1].date = 0 /\ dataPoints[2].date = -1
  /\ results[i].lastUpdated = NoTimestamp

\* C35 witness: the later of two dates is the first reading of the batch.
LatestIsNotLastWitness ==
  /\ pc = "total" /\ results[i].success
  /\ Len(dataPoints) = 2
  /\ dataPoints[1].date = 20240601 /\ dataPoints[2].date = 20240530
  /\ results[i].lastUpdated = 20240601

\* the readings of the batch whose date can be read
DatedReadings(points) == { k \in DOMAIN points : Parseable(points[k].date) }

\* C36 (malformed record tolerance): a reading whose date cannot be read is
\* left out of the months to save and never reaches a file; unless a file
\* operation failed, the device's result is successful, counts the other
\* readings, and each of them is in the monthly file and in the daily file of
\* its month.
MalformedRecordTolerance ==
  /\ pc \in {"monthly", "migrate", "daily"} =>
       /\ \A k \in DOMAIN pending : \A j \in DOMAIN pending[k].data :
            Parseable(pending[k].data[j].date)
       /\ totalPoints + SumSeq([k \in DOMAIN pending |-> Len(pending[k].data)])
            = Cardinality(DatedReadings(dataPoints))
  /\ (pc = "total" /\ Dev.id \notin (fetchFailed \cup ioFailed)) =>
       /\ results[i].success
       /\ results[i].dataPointsCollected = Cardinality(DatedReadings(dataPoints))
       /\ \A k \in DatedReadings(dataPoints) :
            /\ KeyNum(dataPoints[k]) \in KeysOf(hourly[Dev.id][MonthOf(dataPoints[k].date)].data)
            /\ dataPoints[k].date \in DatesOf(daily[Dev.id][MonthOf(dataPoints[k].date)].days)
  /\ \A d \in DeviceIds, m \in Months :
       /\ \A k \in DOMAIN hourly[d][m].data : Parseable(hourly[d][m].data[k].date)
       /\ \A k \in DOMAIN daily[d][m].days : Parseable(daily[d][m].days[k].date)

\* C36 witness: a batch of a reading whose date is no date and a proper
\* reading was saved; the proper reading is stored and counted.
MalformedRecordToleranceWitness ==
  /\ pc = "total" /\ results[i].success
  /\ Len(dataPoints) = 2
  /\ dataPoints[1].date = -1 /\ dataPoints[2].date = 20240531
  /\ results[i].dataPointsCollected = 1
  /\ KeyNum(dataPoints[2]) \in KeysOf(hourly[Dev.id][202405].data)
  /\ DatesOf(daily[Dev.id][202405].days) = {20240531}

Running == InLoop \/ pc \in {"meta", "page", "summary"}

\* an upper bound of the awaited steps a run still has to take: the devices
\* not yet finished, and within the current device the months not yet saved
StepsLeft ==
  IF ~Running THEN 0
  ELSE (Len(devices) + 1 - i) * 10
       + CASE pc = "collect" -> 9
           [] pc = "monthly" -> 3 * Len(pending) + 2
           [] pc = "migrate" -> 3 * Len(pending) + 1
           [] pc = "daily"   -> 3 * Len(pending)
           [] pc = "total"   -> 2
           [] pc = "delay"   -> 1
           [] pc = "meta"    -> 4
           [] pc = "page"    -> 3
           [] pc = "summary" -> 2

SummaryCounts ==
  pc = "done" =>
    /\ summary.totalDevices = Len(devices)
    /\ summary.successfulDevices + summary.failedDevices = summary.totalDevices
    /\ summary.results = results
    /\ summary.failedDevices =
         Cardinality({ k \in DOMAIN results :
                         results[k].error # <<>> /\ results[k].dataPointsCollected = 0 })
    /\ \A k \in DOMAIN results :
         /\ ~results[k].success <=> results[k].error # <<>>
         /\ ~results[k].success => results[k].dataPointsCollected = 0

\* C38 witness: of two devices one failed and the other returned an empty
\* batch; the summary counts one failed and one successful device.
SummaryCountsWitness ==
  /\ pc = "done" /\ Len(devices) = 2
  /\ ~results[1].success
  /\ results[2].success /\ results[2].dataPointsCollected = 0
  /\ summary.totalDevices = 2
  /\ summary.failedDevices = 1 /\ summary.successfulDevices = 1

\* C39 (no write without data): the step in which a device's fetch fails or
\* returns an empty list changes no monthly, daily or legacy file and leaves
\* the device with its result, failed for the failed fetch and successful
\* with no data points for the empty list; the total recomputation that
\* follows changes no file either.
NoWriteWithoutData ==
  [][ /\ (pc = "collect" /\ pc' # "killed" /\ (Dev.id \in fetchFailed' \/ dataPoints' = <<>>)) =>
           /\ pc' = "total"
           /\ files' = files
           /\ Len(results') = Len(results) + 1
           /\ results'[i].deviceId = Dev.id
           /\ results'[i].dataPointsCollected = 0
           /\ results'[i].success <=> Dev.id \notin fetchFailed'
      /\ pc = "total" => files' = files
    ]_vars

\* C39 witness: in a second run the fetch of a device that has files failed
\* and its files are as the first run left them.
NoWriteWithoutDataWitness ==
  /\ pc = "total" /\ runs = 2
  /\ Dev.id \in fetchFailed
  /\ ~results[i].success
  /\ \E m \in Months :
       /\ hourly[Dev.id][m].lastUpdated = Now(1)
       /\ daily[Dev.id][m].lastUpdated = Now(1)

\* C39 witness: an empty list was fetched; the result is successful with no
\* data points and the device has no file.
EmptyFetchWitness ==
  /\ pc = "total" /\ runs = 1
  /\ results[i].success /\ results[i].dataPointsCollected = 0
  /\ dataPoints = <<>>
  /\ \A m \in Months : ~hourly[Dev.id][m].exists /\ ~daily[Dev.id][m].exists

\* the months in ascending order
MonthList == SortAsc(Months)

\* the readings of the batch that fall in month m
BatchKeysOf(m) ==
  { KeyNum(dataPoints[k]) : k \in { j \in DatedReadings(dataPoints) : MonthOf(dataPoints[j].date) = m } }

\* C40 (no rollback on partial failure): when a save has failed the months
\* saved before it in the same pass keep their monthly and daily file with
\* the readings of the batch, the months after it are not attempted, and the
\* result is failed with no data points; the metadata entry of every device,
\* a failed one too, carries the count of the readings stored for it.
NoRollback ==
  /\ (pc = "total" /\ Dev.id \in ioFailed) =>
       /\ ~results[i].success
       /\ results[i].dataPointsCollected = 0
       /\ pending # <<>>
       /\ LET saved == Range(BatchMonths) \ PendingMonths
          IN  \A m \in saved :
                /\ hourly[Dev.id][m].lastUpdated = Now(runs)
                /\ daily[Dev.id][m].lastUpdated = Now(runs)
                /\ BatchKeysOf(m) \subseteq KeysOf(hourly[Dev.id][m].data)
       /\ \A k \in 2..Len(pending) :
            /\ hourly[Dev.id][pending[k].month].lastUpdated # Now(runs)
            /\ daily[Dev.id][pending[k].month].lastUpdated # Now(runs)
       /\ daily[Dev.id][Head(pending).month].lastUpdated # Now(runs)
  /\ Running =>
       \A k \in DOMAIN deviceMetadata :
         deviceMetadata[k].totalDataPoints =
           SumSeq([n \in DOMAIN MonthList |-> Len(hourly[devices[k].id][MonthList[n]].data)])

\* C40 witness: of a batch over two months the first month was saved and the
\* save of the second failed; the first month's files are there, the second
\* month has none, the result is failed with no data points and the metadata
\* entry counts the reading that was stored.
NoRollbackWitness ==
  /\ pc = "meta" /\ runs = 1
  /\ ~results[1].success /\ results[1].dataPointsCollected = 0
  /\ devices[1].id \in ioFailed
  /\ hourly[devices[1].id][202405].lastUpdated = Now(runs)
  /\ daily[devices[1].id][202405].lastUpdated = Now(runs)
  /\ ~hourly[devices[1].id][202406].exists
  /\ deviceMetadata[1].totalDataPoints = 1

=============================================================================
